---- MODULE Spec2Model ----
(***************************************************************************)
(* A model of the worktree commands of ai-sbx                              *)
(* (src/src/ai_sbx/commands/worktree.py and its twin                       *)
(* src/src/ai_sbx/commands/worktree/utils.py).                             *)
(*                                                                         *)
(* Text is modelled as a sequence of one-character strings (branch names,  *)
(* descriptions) or of short tokens (file lines, porcelain lines, paths),  *)
(* so that the string operations of the code (lower, re.sub, strip,        *)
(* rsplit, splitlines, startswith, Path) are computed, not assumed.        *)
(***************************************************************************)
EXTENDS Integers, Sequences, FiniteSets, TLC

VARIABLES
    description,    \* the task description given to `worktree create`
    slug,           \* `branch` after line 676, before the length limit
    branch,         \* the result of _generate_branch_name(description)
    bpc,            \* "input" before the call, "done" after it
    psOutcome,      \* how `docker ps` ends: "ok", "nonzero" or "missing"
    psStdout,       \* what `docker ps --format {{.Names}}` prints
    containerName,  \* the argument of _get_running_container_name
    resolved,       \* the outcome of _get_running_container_name
    isRunning,      \* the outcome of _is_container_running
    userEnv0,       \* .devcontainer/.user.env before the first call
    userEnv,        \* .devcontainer/.user.env now: whether it exists, its text
    prefCalls,      \* _save_preferred_ide calls so far: 0, 1, or 2 for "2 or more"
    lastSave,       \* the last _save_preferred_ide call: its value and how it went
    lastGet,        \* the _get_preferred_ide call made since, and how it went
    gitList,        \* how `git worktree list --porcelain` ends, and its output
    topLevel,       \* how `git rev-parse --show-toplevel` ends, and its output
    excludeCurrent, \* the argument of _list_worktrees
    listed,         \* the outcome of _list_worktrees
    rmArgs,         \* remove: its arguments name, all, force, delete_branch
    rpc,            \* remove: where the command is
    toRemove,       \* remove: to_remove
    containersToStop, \* remove: containers_to_stop, as (path, container) pairs
    deleteContainers, \* remove: delete_containers
    deleteBranch,   \* remove: delete_branch, once the prompts are over
    mainPath,       \* remove: main_path of line 340
    idx,            \* remove: the position in to_remove of the loop of line 341
    effects,        \* remove: the external commands run so far, in order
    said,           \* remove: the messages printed so far
    rmExc,          \* remove: the exception that left the command, or "none"
    oIde,           \* _open_ide: the IDE kind it is called with
    oHave,          \* _open_ide: the commands shutil.which finds on PATH
    opc,            \* _open_ide: where the call is
    oWorks,         \* _open_ide: devcontainer_works
    oLog,           \* _open_ide: the external processes run so far, in order
    oSaid,          \* _open_ide: the messages printed so far
    oExc,           \* _open_ide: the exception that left the call, or "none"
    oCwd,           \* _open_ide: the working directory of the process
    crArgs,         \* create: description, branch, ide, no_open, with_task_folder
    cpc,            \* create: where the command is
    cBranch,        \* create: branch, once derived
    cPath,          \* create: worktree_path
    cFs,            \* create: the directories that exist beside the repository
    cInstalled,     \* create: the IDE commands found on PATH
    cPreferred,     \* create: preferred_ide
    cSource,        \* create: where preferred_ide came from
    cEffects,       \* create: the steps with an outside effect taken so far
    cGit,           \* create: the git subcommands invoked so far
    cSaid,          \* create: the messages printed so far
    cExc,           \* create: the exception that left the command, or "none"
    rFile0,         \* race: .devcontainer/.user.env before the two calls
    rFile,          \* race: .devcontainer/.user.env now
    rProc,          \* race: each _save_preferred_ide call: where it is, its lines
    rLast,          \* race: the call that wrote the file last, 0 for none
    rOrder,         \* race: the steps taken so far, in order
    dArgs,          \* build: the options all, variant, push and the project's config
    dInfo,          \* build: how `docker info --format json` ends
    dpc,            \* build: where the command is
    dVariants,      \* build: variants_to_build
    dIdx,           \* build: the position in the list the command loops over
    dLog,           \* build: the docker builds and pushes run so far, in order
    dCount,         \* build: success_count and failed_count
    dSaid,          \* build: the messages printed so far
    dExit,          \* build: the exit code, once the command has ended
    gFs0,           \* generate: the target files before the call
    gFs,            \* generate: the target files now
    gForce,         \* generate: the argument force
    gOutcomes,      \* generate: how the write of each target would end
    gpc,            \* generate: "input" before the call, "done" after it
    gResult         \* generate: what generate_project_files returned

branchVars == <<description, slug, branch, bpc>>
ctrVars == <<psOutcome, psStdout, containerName, resolved, isRunning>>

prefVars == <<userEnv0, userEnv, prefCalls, lastSave, lastGet>>

listVars == <<gitList, topLevel, excludeCurrent, listed>>

rmVars == <<rmArgs, rpc, toRemove, containersToStop, deleteContainers, deleteBranch,
            mainPath, idx, effects, said, rmExc>>

openVars == <<oIde, oHave, opc, oWorks, oLog, oSaid, oExc, oCwd>>

crVars == <<crArgs, cpc, cBranch, cPath, cFs, cInstalled, cPreferred, cSource,
            cEffects, cGit, cSaid, cExc>>

raceVars == <<rFile0, rFile, rProc, rLast, rOrder>>

buildVars == <<dArgs, dInfo, dpc, dVariants, dIdx, dLog, dCount, dSaid, dExit>>

genVars == <<gFs0, gFs, gForce, gOutcomes, gpc, gResult>>

moreVars == <<raceVars, buildVars, genVars>>

vars == <<branchVars, ctrVars, prefVars, listVars, rmVars, openVars, crVars, moreVars>>

(***************************************************************************)
(* Values shared by the components                                         *)
(***************************************************************************)

\* Optional[...]: None, or a value.
None == [some |-> FALSE, val |-> <<>>]
Some(v) == [some |-> TRUE, val |-> v]

\* How a call ends: it returns a value, or an exception leaves it.
Return(v) == [exc |-> "none", val |-> v]
Raise(e) == [exc |-> e, val |-> None]
NotCalled == [exc |-> "not called", val |-> None]
Called(r) == r.exc # "not called"
Returned(r) == r.exc = "none"

\* How subprocess.run(..., check=True) ends: exit status 0, a non-zero exit
\* status (CalledProcessError), or no such executable (FileNotFoundError).
RunOutcomes == {"ok", "nonzero", "missing"}

\* Line terminators of a text.
LF == "\n"
CR == "\r"

Min(S) == CHOOSE x \in S : \A y \in S : x <= y
Max(S) == CHOOSE x \in S : \A y \in S : y <= x

\* The elements of s at the positions of `keep`, in order.
Pick(s, keep) ==
    LET n == Cardinality(keep)
        at == [k \in 1..n |->
                 CHOOSE i \in keep : Cardinality({j \in keep : j <= i}) = k]
    IN  [k \in 1..n |-> s[at[k]]]

\* A text, given as a sequence of tokens, split into lines at the tokens of
\* `breaks`; "\r\n" is one break when both are breaks. As str.splitlines,
\* the result has no empty last line.
IsBreak(t, i, breaks) == t[i] \in breaks
EndsLine(t, i, breaks) ==
    /\ IsBreak(t, i, breaks)
    /\ ~(t[i] = CR /\ LF \in breaks /\ i < Len(t) /\ t[i + 1] = LF)
SplitWith(t, breaks) ==
    LET ends == {i \in 1..Len(t) : EndsLine(t, i, breaks)}
        starts == {1} \cup {i + 1 : i \in ends}
        first == {i \in starts : i <= Len(t)}
        stop(i) == Min({j \in i..Len(t) : IsBreak(t, j, breaks)} \cup {Len(t) + 1})
        order == [k \in 1..Cardinality(first) |->
                    CHOOSE i \in first : Cardinality({j \in first : j <= i}) = k]
    IN  [k \in 1..Cardinality(first) |-> SubSeq(t, order[k], stop(order[k]) - 1)]

\* str.splitlines(): a line ends at "\n", at "\r" or at "\r\n".
SplitLines(t) == SplitWith(t, {LF, CR})

\* "\n".join(lines) + "\n"
RECURSIVE JoinLines(_)
JoinLines(lines) ==
    IF lines = <<>> THEN <<LF>>
    ELSE IF Len(lines) = 1 THEN Head(lines) \o <<LF>>
    ELSE Head(lines) \o <<LF>> \o JoinLines(Tail(lines))

(***************************************************************************)
(* Branch-name deriver: _generate_branch_name                              *)
(***************************************************************************)

\* Length limit of a generated branch name.
MaxBranchLen == 50

LowerLetters == {"a", "b", "f", "g", "i", "u", "x", "z"}
UpperLetters == {"B", "F", "Z"}
Digits == {"1", "2", "3", "7"}
Hyphen == "-"
OtherChars == {" ", "#", "!"}

\* str.lower() on one character.
Lower(c) ==
    CASE c = "B" -> "b"
      [] c = "F" -> "f"
      [] c = "Z" -> "z"
      [] OTHER -> c

\* description.lower()
LowerStr(s) == [i \in 1..Len(s) |-> Lower(s[i])]

\* The character class [a-z0-9-] of the first re.sub.
InClass(c) == c \in LowerLetters \cup Digits \cup {Hyphen}

\* What position i of s contributes to re.sub(r"[^a-z0-9-]+", "-", s): a
\* character of the class stays, the first character of a run outside the
\* class becomes a hyphen, the rest of the run disappears.
OutsideAt(s, i) ==
    IF InClass(s[i]) THEN <<s[i]>>
    ELSE IF i > 1 /\ ~InClass(s[i - 1]) THEN <<>>
    ELSE <<Hyphen>>

\* re.sub(r"[^a-z0-9-]+", "-", s) on positions lo..hi.
RECURSIVE SubOutside(_, _, _)
SubOutside(s, lo, hi) ==
    IF lo > hi THEN <<>>
    ELSE IF lo = hi THEN OutsideAt(s, lo)
    ELSE LET mid == (lo + hi) \div 2
         IN  SubOutside(s, lo, mid) \o SubOutside(s, mid + 1, hi)

\* What position i of s contributes to re.sub(r"-+", "-", s): only the first
\* hyphen of a run of hyphens stays.
HyphensAt(s, i) ==
    IF s[i] = Hyphen /\ i > 1 /\ s[i - 1] = Hyphen THEN <<>> ELSE <<s[i]>>

\* re.sub(r"-+", "-", s) on positions lo..hi.
RECURSIVE SubHyphens(_, _, _)
SubHyphens(s, lo, hi) ==
    IF lo > hi THEN <<>>
    ELSE IF lo = hi THEN HyphensAt(s, lo)
    ELSE LET mid == (lo + hi) \div 2
         IN  SubHyphens(s, lo, mid) \o SubHyphens(s, mid + 1, hi)

\* Lines 673-675: lower-case, then the two substitutions.
Normalise(d) ==
    LET low == LowerStr(d)
        one == SubOutside(low, 1, Len(low))
    IN  SubHyphens(one, 1, Len(one))

\* s.strip("-")
StripHyphens(s) ==
    LET keep == {i \in 1..Len(s) : s[i] # Hyphen}
    IN  IF keep = {} THEN <<>>
        ELSE LET lo == CHOOSE i \in keep : \A j \in keep : i <= j
                 hi == CHOOSE i \in keep : \A j \in keep : j <= i
             IN  SubSeq(s, lo, hi)

\* A slug whose leading and trailing hyphens are not stripped.
SlugNoStrip(d) == Normalise(d)

\* The slug before the length limit (lines 673-676).
Slug(d) == StripHyphens(Normalise(d))

\* s[:n]
Take(s, n) == SubSeq(s, 1, IF Len(s) < n THEN Len(s) ELSE n)

\* s.rsplit("-", 1)[0]: what precedes the last hyphen, or all of s when it
\* holds no hyphen.
RSplitFirst(s) ==
    LET hy == {i \in 1..Len(s) : s[i] = Hyphen}
    IN  IF hy = {} THEN s
        ELSE SubSeq(s, 1, (CHOOSE i \in hy : \A j \in hy : j <= i) - 1)

\* A length limit that cuts at MaxBranchLen without backing up to a hyphen.
LimitLengthNoBackup(b) == Take(b, MaxBranchLen)

\* Lines 678-680: the length limit.
LimitLength(b) ==
    IF Len(b) > MaxBranchLen THEN RSplitFirst(Take(b, MaxBranchLen)) ELSE b

\* _generate_branch_name(description)
generate_branch_name(d) == LimitLength(Slug(d))

\* The descriptions the model tries: up to MaxRuns runs of one character
\* each, with run lengths around the length limit, and the spec's example.
MaxRuns == 3
RunChars == {"a", "Z", "-", "#"}
RunLens == {1, MaxBranchLen - 1, MaxBranchLen}
Runs == [ch : RunChars, n : RunLens]

RECURSIVE Expand(_)
Expand(rs) ==
    IF rs = <<>> THEN <<>>
    ELSE [i \in 1..Head(rs).n |-> Head(rs).ch] \o Expand(Tail(rs))

RunSeqs == UNION {[1..k -> Runs] : k \in 0..MaxRuns}

\* "Fix Bug #123!!"
ExampleDescription ==
    <<"F", "i", "x", " ", "B", "u", "g", " ", "#", "1", "2", "3", "!", "!">>

\* "fix-bug-123"
ExampleBranch == <<"f", "i", "x", "-", "b", "u", "g", "-", "1", "2", "3">>

Descriptions == {Expand(rs) : rs \in RunSeqs} \cup {ExampleDescription}

InitBranch ==
    /\ description \in Descriptions
    /\ slug = <<>>
    /\ branch = <<>>
    /\ bpc = "input"

\* The branch-name deriver is not in use.
IdleBranch ==
    /\ description = <<>>
    /\ slug = <<>>
    /\ branch = <<>>
    /\ bpc = "idle"

\* create, line 96: branch = _generate_branch_name(description)
GenerateBranchName ==
    /\ bpc = "input"
    /\ slug' = Slug(description)
    /\ branch' = generate_branch_name(description)
    /\ bpc' = "done"
    /\ UNCHANGED description
    /\ UNCHANGED <<ctrVars, prefVars, listVars, rmVars, openVars, crVars, moreVars>>

NextBranch == GenerateBranchName

(***************************************************************************)
(* Claims about the branch-name deriver                                    *)
(***************************************************************************)

\* ^[a-z0-9]+(-[a-z0-9]+)*$
MatchesSlugPattern(b) ==
    /\ Len(b) >= 1
    /\ \A i \in 1..Len(b) : b[i] \in LowerLetters \cup Digits \cup {Hyphen}
    /\ b[1] # Hyphen
    /\ b[Len(b)] # Hyphen
    /\ \A i \in 1..(Len(b) - 1) : ~(b[i] = Hyphen /\ b[i + 1] = Hyphen)

IsPrefix(p, s) == Len(p) <= Len(s) /\ SubSeq(s, 1, Len(p)) = p

\* C2: the derived branch name is empty or matches ^[a-z0-9]+(-[a-z0-9]+)*$,
\* is never longer than 50 characters, never starts or ends with a hyphen,
\* and "Fix Bug #123!!" gives "fix-bug-123".
BranchNameWellFormed ==
    bpc = "done" =>
        /\ branch = <<>> \/ MatchesSlugPattern(branch)
        /\ Len(branch) <= MaxBranchLen
        /\ branch # <<>> => branch[1] # Hyphen /\ branch[Len(branch)] # Hyphen
        /\ description = ExampleDescription => branch = ExampleBranch

\* C2 witness: a slug longer than the limit was cut to a non-empty name.
BranchNameTruncated ==
    /\ bpc = "done"
    /\ Len(slug) > MaxBranchLen
    /\ branch # <<>>
    /\ Len(branch) < MaxBranchLen

\* C3 as claimed: whenever the slug is longer than 50 characters the result
\* is a prefix of the slug and the character that follows it in the slug is
\* a hyphen.
TruncationEndsAtHyphen ==
    (bpc = "done" /\ Len(slug) > MaxBranchLen) =>
        /\ IsPrefix(branch, slug)
        /\ slug[Len(branch) + 1] = Hyphen

\* The slug's first word (what precedes its first hyphen) fits the limit.
FirstWordFits(s) == \E i \in 1..(MaxBranchLen + 1) : i <= Len(s) /\ s[i] = Hyphen

\* C3 as amended: whenever the slug is longer than 50 characters and its
\* first word is at most 50 characters long, the result is a prefix of the
\* slug that is followed by a hyphen in the slug; when the first word is
\* longer than 50 characters the result is the first 50 characters.
TruncationEndsAtHyphenIfAny ==
    (bpc = "done" /\ Len(slug) > MaxBranchLen) =>
        /\ IsPrefix(branch, slug)
        /\ FirstWordFits(slug) =>
               slug[Len(branch) + 1] = Hyphen
        /\ ~FirstWordFits(slug) =>
               branch = Take(slug, MaxBranchLen)

\* C3 witness: a long slug with a hyphen inside its first 50 characters was
\* cut back to that hyphen.
TruncatedAtInnerHyphen ==
    /\ bpc = "done"
    /\ Len(slug) > MaxBranchLen
    /\ FirstWordFits(slug)
    /\ Len(branch) < MaxBranchLen - 1
    /\ branch # <<>>

(***************************************************************************)
(* Container name resolver: _get_running_container_name                    *)
(***************************************************************************)

\* f"{container_name}-1"
Suffixed(name) == name \o <<"-1">>

\* Lines 1173-1176: the first running name that is the name itself or the
\* name with the -1 suffix.
FirstMatch(names, name) ==
    LET hits == {i \in 1..Len(names) :
                    names[i] = name \/ names[i] = Suffixed(name)}
    IN  IF hits = {} THEN None ELSE Some(names[Min(hits)])

\* _get_running_container_name(container_name): only CalledProcessError is
\* caught.
get_running_container_name(outcome, stdout, name) ==
    CASE outcome = "ok" -> Return(FirstMatch(SplitLines(stdout), name))
      [] outcome = "nonzero" -> Return(None)
      [] outcome = "missing" -> Raise("FileNotFoundError")

\* _is_container_running(container_name)
is_container_running(outcome, stdout, name) ==
    LET r == get_running_container_name(outcome, stdout, name)
    IN  IF r.exc = "none" THEN Return(r.val.some) ELSE Raise(r.exc)

\* The running containers the model tries: up to MaxRunning distinct names,
\* in every order.
MaxRunning == 3
BaseName == <<"proj-devcontainer">>
RunningNames ==
    {BaseName, Suffixed(BaseName), BaseName \o <<"-2">>, <<"other-devcontainer">>}
NameLists ==
    UNION {{l \in [1..k -> RunningNames] :
               \A i, j \in 1..k : i # j => l[i] # l[j]} : k \in 0..MaxRunning}

\* What `docker ps --format {{.Names}}` prints for a list of names.
PsOutput(names) == IF names = <<>> THEN <<>> ELSE JoinLines(names)

InitContainer ==
    /\ psOutcome \in RunOutcomes
    /\ psStdout \in IF psOutcome = "ok"
                     THEN {PsOutput(l) : l \in NameLists}
                     ELSE {<<>>}
    /\ containerName = BaseName
    /\ resolved = NotCalled
    /\ isRunning = NotCalled

\* The container name resolver is not in use.
IdleContainer ==
    /\ psOutcome = "ok"
    /\ psStdout = <<>>
    /\ containerName = <<>>
    /\ resolved = NotCalled
    /\ isRunning = NotCalled

\* A call of _get_running_container_name(containerName).
GetRunningContainerName ==
    /\ ~Called(resolved)
    /\ resolved' = get_running_container_name(psOutcome, psStdout, containerName)
    /\ UNCHANGED <<psOutcome, psStdout, containerName, isRunning>>
    /\ UNCHANGED <<branchVars, prefVars, listVars, rmVars, openVars, crVars, moreVars>>

\* A call of _is_container_running(containerName).
IsContainerRunning ==
    /\ ~Called(isRunning)
    /\ isRunning' = is_container_running(psOutcome, psStdout, containerName)
    /\ UNCHANGED <<psOutcome, psStdout, containerName, resolved>>
    /\ UNCHANGED <<branchVars, prefVars, listVars, rmVars, openVars, crVars, moreVars>>

NextContainer == GetRunningContainerName \/ IsContainerRunning

(***************************************************************************)
(* Claims about the container name resolver                                *)
(***************************************************************************)

\* The names `docker ps` printed.
RunningNow == {SplitLines(psStdout)[i] : i \in 1..Len(SplitLines(psStdout))}

\* C7 as claimed: when the query succeeds, the resolver returns base-1 when
\* only the suffixed name is running and the exact name whenever both the
\* exact and the suffixed name are running, whatever their order.
ExactNamePreferred ==
    (Called(resolved) /\ psOutcome = "ok") =>
        /\ (Suffixed(containerName) \in RunningNow /\ containerName \notin RunningNow)
               => resolved = Return(Some(Suffixed(containerName)))
        /\ (Suffixed(containerName) \in RunningNow /\ containerName \in RunningNow)
               => resolved = Return(Some(containerName))

\* C8 as claimed: the resolver never raises; when the query fails (non-zero
\* exit or no executable) or nothing matches it returns None, and
\* _is_container_running then returns False.
ResolverNeverRaises ==
    /\ resolved.exc \in {"none", "not called"}
    /\ isRunning.exc \in {"none", "not called"}
    /\ (Called(resolved)
          /\ (psOutcome # "ok"
               \/ {containerName, Suffixed(containerName)} \cap RunningNow = {}))
          => resolved = Return(None)
    /\ (Called(isRunning)
          /\ (psOutcome # "ok"
               \/ {containerName, Suffixed(containerName)} \cap RunningNow = {}))
          => (Returned(isRunning) /\ isRunning.val = FALSE)

(***************************************************************************)
(* IDE preference store: _get_preferred_ide, _save_preferred_ide           *)
(***************************************************************************)

\* The values of the IDE enumeration.
IDEValues == {"vscode", "pycharm", "rider", "goland", "devcontainer", "claude"}

\* The choices of the --ide option of `worktree create`.
IdeChoices == {"vscode", "devcontainer", "pycharm", "rider", "goland"}

PrefKey == "PREFERRED_IDE"

\* line.startswith("PREFERRED_IDE=")
StartsWithPref(line) == Len(line) >= 2 /\ line[1] = PrefKey /\ line[2] = "="

\* s.strip(chars): leading and trailing tokens of `chars` removed.
Strip(s, chars) ==
    LET keep == {i \in 1..Len(s) : s[i] \notin chars}
    IN  IF keep = {} THEN <<>> ELSE SubSeq(s, Min(keep), Max(keep))

\* line.split("=", 1)[1].strip().strip('"').strip("'")
ValueOf(line) ==
    LET eq == Min({i \in 1..Len(line) : line[i] = "="})
    IN  Strip(Strip(Strip(SubSeq(line, eq + 1, Len(line)), {" "}), {"\""}), {"'"})

\* An IDE(value) that knows only the --ide choices.
ParseIdeChoices(value) ==
    IF Len(value) = 1 /\ value[1] \in IdeChoices THEN Some(value[1]) ELSE None

\* IDE(value): the member with that value, or ValueError (None here).
ParseIde(value) ==
    IF Len(value) = 1 /\ value[1] \in IDEValues THEN Some(value[1]) ELSE None

\* _get_preferred_ide(project_root): the first PREFERRED_IDE= line whose
\* value is a member of IDE; None when the file is absent, cannot be read
\* or holds no such line.
get_preferred_ide(file, readOk) ==
    IF ~file.exists \/ ~readOk THEN None
    ELSE LET lines == SplitLines(file.text)
             hits == {i \in 1..Len(lines) :
                         StartsWithPref(lines[i]) /\ ParseIde(ValueOf(lines[i])).some}
         IN  IF hits = {} THEN None ELSE ParseIde(ValueOf(lines[Min(hits)]))

\* Line 815: f"PREFERRED_IDE={ide.value}"
PrefLine(ide) == <<PrefKey, "=", ide>>

\* A filter that keeps every line.
KeepAllLines(lines) == lines

\* Line 810: the lines that do not start with PREFERRED_IDE=.
KeptLines(lines) == SelectSeq(lines, LAMBDA l : ~StartsWithPref(l))

\* Lines 806-815: the lines to write.
LinesToWrite(file, ide, readOk) ==
    Append(IF file.exists /\ readOk THEN KeptLines(SplitLines(file.text)) ELSE <<>>,
           PrefLine(ide))

\* _save_preferred_ide(project_root, ide, console): the file afterwards.
\* mkdir may raise (nothing is written); a failed read leaves no old line;
\* a failed write is logged and leaves the file as it was.
save_preferred_ide(file, ide, mkdirOk, readOk, writeOk) ==
    IF mkdirOk /\ writeOk
    THEN [exists |-> TRUE, text |-> JoinLines(LinesToWrite(file, ide, readOk))]
    ELSE file

\* How a _save_preferred_ide call ended.
SaveResult(mkdirOk, writeOk) ==
    IF ~mkdirOk THEN "raised" ELSE IF writeOk THEN "written" ELSE "write failed"

\* The preference files the model starts from: absent, or up to
\* MaxFileLines lines, each ended by "\n".
MaxFileLines == 2
LineKinds ==
    { <<"FOO", "=", "1">>,
      <<PrefKey, "=", "vscode">>,
      <<PrefKey, "=", "\"", "pycharm", "\"">>,
      <<PrefKey, "=", "bogus">>,
      <<" ", PrefKey, "=", "rider">>,
      <<"BAR", "=", "2", CR, PrefKey, "=", "goland">>,
      <<PrefKey, "=", "claude", CR>> }

RECURSIVE Concat(_)
Concat(ss) == IF ss = <<>> THEN <<>> ELSE Head(ss) \o <<LF>> \o Concat(Tail(ss))

InitialTexts == {Concat(ls) : ls \in UNION {[1..k -> LineKinds] : k \in 0..MaxFileLines}}
InitialFiles ==
    {[exists |-> FALSE, text |-> <<>>]} \cup {[exists |-> TRUE, text |-> t] : t \in InitialTexts}

NoSave == [ide |-> "", result |-> "not called", readOk |-> TRUE]
NoGet == [exc |-> "not called", val |-> None, readOk |-> TRUE]

InitPref ==
    /\ userEnv0 \in InitialFiles
    /\ userEnv = userEnv0
    /\ prefCalls = 0
    /\ lastSave = NoSave
    /\ lastGet = NoGet

\* The preference store is not in use.
IdlePref ==
    /\ userEnv0 = [exists |-> FALSE, text |-> <<>>]
    /\ userEnv = userEnv0
    /\ prefCalls = 0
    /\ lastSave = NoSave
    /\ lastGet = NoGet

\* A call of _save_preferred_ide(project_root, ide, console). mkdir
\* (exist_ok) can fail only while the file, hence maybe its directory, is
\* absent; a step that is not reached (the read of an absent file, the
\* read and the write after a failed mkdir) has no outcome to choose.
SavePreferredIde ==
    \E ide \in IDEValues, mkdirOk, readOk, writeOk \in BOOLEAN :
        /\ userEnv.exists => mkdirOk
        /\ ~userEnv.exists => readOk
        /\ ~mkdirOk => (readOk /\ writeOk)
        /\ userEnv' = save_preferred_ide(userEnv, ide, mkdirOk, readOk, writeOk)
        /\ prefCalls' = IF prefCalls < 2 THEN prefCalls + 1 ELSE prefCalls
        /\ lastSave' = [ide |-> ide, result |-> SaveResult(mkdirOk, writeOk),
                        readOk |-> readOk]
        /\ lastGet' = NoGet
        /\ UNCHANGED userEnv0
        /\ UNCHANGED <<branchVars, ctrVars, listVars, rmVars, openVars, crVars, moreVars>>

\* A call of _get_preferred_ide(project_root).
GetPreferredIde ==
    \E readOk \in BOOLEAN :
        /\ ~Called(lastGet)
        /\ ~userEnv.exists => readOk
        /\ lastGet' = [exc |-> "none", val |-> get_preferred_ide(userEnv, readOk),
                       readOk |-> readOk]
        /\ UNCHANGED <<userEnv0, userEnv, prefCalls, lastSave>>
        /\ UNCHANGED <<branchVars, ctrVars, listVars, rmVars, openVars, crVars, moreVars>>

NextPref == SavePreferredIde \/ GetPreferredIde

(***************************************************************************)
(* Claims about the IDE preference store                                   *)
(***************************************************************************)

\* The lines of a file's text: what "\n" separates.
FileLines(file) == SplitWith(file.text, {LF})

\* The lines of the file that start with PREFERRED_IDE=.
PrefLinesOf(file) ==
    IF file.exists
    THEN SelectSeq(FileLines(file), LAMBDA l : StartsWithPref(l))
    ELSE <<>>

\* Exactly one PREFERRED_IDE= line, carrying the last call's value.
OneLineOfLastCall == PrefLinesOf(userEnv) = <<PrefLine(lastSave.ide)>>

OtherLinesOf(file) ==
    IF file.exists
    THEN SelectSeq(FileLines(file), LAMBDA l : ~StartsWithPref(l))
    ELSE <<>>

\* C25 as claimed: _save_preferred_ide changes nothing in the file except
\* the PREFERRED_IDE= line: every other line present before the calls is
\* still present afterwards, unchanged and in the same order, on every
\* path through the function, a failed read of the file included.
OtherLinesKept == OtherLinesOf(userEnv) = OtherLinesOf(userEnv0)

(***************************************************************************)
(* Worktree registry reader: _get_main_worktree_path, _list_worktrees      *)
(***************************************************************************)

\* Path(p), for an absolute path given as tokens: repeated and trailing
\* separators are dropped. Nothing is resolved on disk.
PathOf(p) ==
    Pick(p, {i \in 1..Len(p) :
                p[i] # "/" \/ i = 1 \/ (i < Len(p) /\ p[i + 1] # "/")})

\* Path(p).name: what follows the last separator.
PathName(p) ==
    LET q == PathOf(p)
        seps == {i \in 1..Len(q) : q[i] = "/"}
    IN  IF seps = {} THEN q ELSE SubSeq(q, Max(seps) + 1, Len(q))

Whitespace == {" ", LF, CR}

\* _get_main_worktree_path(): the Path of what `git rev-parse
\* --show-toplevel` prints, None when it exits non-zero.
get_main_worktree_path(top) ==
    CASE top.outcome = "ok" -> Return(Some(PathOf(Strip(top.stdout, Whitespace))))
      [] top.outcome = "nonzero" -> Return(None)
      [] top.outcome = "missing" -> Raise("FileNotFoundError")

\* A worktree dict: the keys it holds ("detached" is only ever set True).
EmptyDict == [path |-> None, commit |-> None, branch |-> None, detached |-> FALSE]

\* line.startswith(prefix), for a line whose first token is its keyword.
StartsWith(line, prefix) == line # <<>> /\ line[1] = prefix

\* line[7:].replace("refs/heads/", "")
BranchOf(line) == SelectSeq(Tail(line), LAMBDA t : t # "refs/heads/")

\* Lines 1098-1107: what one line does to the dict being filled.
ParseLine(current, line) ==
    CASE StartsWith(line, "worktree ") -> [EmptyDict EXCEPT !.path = Some(Tail(line))]
      [] StartsWith(line, "HEAD ") -> [current EXCEPT !.commit = Some(Tail(line))]
      [] StartsWith(line, "branch ") -> [current EXCEPT !.branch = Some(BranchOf(line))]
      [] StartsWith(line, "detached") -> [current EXCEPT !.detached = TRUE]
      [] OTHER -> current

\* Lines 1099-1100 and 1109-1110: a non-empty dict is appended.
Flush(worktrees, current) ==
    IF current # EmptyDict THEN Append(worktrees, current) ELSE worktrees

\* Lines 1093-1110: the loop over the lines, from line i on.
RECURSIVE ParseFrom(_, _, _, _)
ParseFrom(lines, i, current, worktrees) ==
    IF i > Len(lines) THEN Flush(worktrees, current)
    ELSE ParseFrom(lines, i + 1, ParseLine(current, lines[i]),
                   IF StartsWith(lines[i], "worktree ")
                   THEN Flush(worktrees, current) ELSE worktrees)

ParsePorcelain(stdout) == ParseFrom(SplitLines(stdout), 1, EmptyDict, <<>>)

\* Line 1114: Path(w["path"]) != main_path
NotMain(w, main_path) == PathOf(w.path.val) # main_path

\* Lines 1112-1116: the filter; w["path"] raises KeyError for a dict
\* without a path.
ExcludeMain(worktrees, main_path) ==
    IF \E i \in 1..Len(worktrees) : ~worktrees[i].path.some
    THEN Raise("KeyError")
    ELSE Return(SelectSeq(worktrees, LAMBDA w : NotMain(w, main_path)))

\* _list_worktrees(exclude_current): only CalledProcessError is caught.
list_worktrees(list, top, exclude) ==
    CASE list.outcome = "missing" -> Raise("FileNotFoundError")
      [] list.outcome = "nonzero" -> Return(<<>>)
      [] list.outcome = "ok" ->
            LET main_path == get_main_worktree_path(top)
            IN  IF ~Returned(main_path) THEN Raise(main_path.exc)
                ELSE IF exclude /\ main_path.val.some
                THEN ExcludeMain(ParsePorcelain(list.stdout), main_path.val.val)
                ELSE Return(ParsePorcelain(list.stdout))

\* The repository of the model: the main checkout and a linked worktree.
MainPath == <<"/", "work", "/", "repo">>
FixPath == <<"/", "work", "/", "repo", "-", "fix">>

\* What `git rev-parse --show-toplevel` can do once git has run: print the
\* top level of the working tree the command runs in (the main checkout or
\* a linked worktree), or exit non-zero (outside a working tree, as inside
\* .git).
TopLevels ==
    {[outcome |-> "nonzero", stdout |-> <<>>]}
    \cup {[outcome |-> "ok", stdout |-> p \o <<LF>>] : p \in {MainPath, FixPath}}

\* The porcelain lines the model tries: up to MaxLines lines of these kinds.
MaxLines == 4
PorcelainLines ==
    { <<"worktree ">> \o MainPath,
      <<"worktree ">> \o FixPath,
      <<"HEAD ", "abc123">>,
      <<"branch ", "refs/heads/", "fix">>,
      <<"detached">>,
      <<"bare">>,
      <<>> }

PorcelainTexts ==
    {Concat(ls) : ls \in UNION {[1..k -> PorcelainLines] : k \in 0..MaxLines}}

InitList ==
    /\ gitList \in {[outcome |-> o, stdout |-> <<>>] : o \in {"nonzero", "missing"}}
                   \cup {[outcome |-> "ok", stdout |-> t] : t \in PorcelainTexts}
    /\ topLevel \in TopLevels
    /\ excludeCurrent \in BOOLEAN
    /\ listed = NotCalled

\* The registry reader is not in use.
IdleList ==
    /\ gitList = [outcome |-> "ok", stdout |-> <<>>]
    /\ topLevel = [outcome |-> "nonzero", stdout |-> <<>>]
    /\ excludeCurrent = TRUE
    /\ listed = NotCalled

\* A call of _list_worktrees(excludeCurrent).
ListWorktrees ==
    /\ ~Called(listed)
    /\ listed' = list_worktrees(gitList, topLevel, excludeCurrent)
    /\ UNCHANGED <<gitList, topLevel, excludeCurrent>>
    /\ UNCHANGED <<branchVars, ctrVars, prefVars, rmVars, openVars, crVars, moreVars>>

NextList == ListWorktrees

(***************************************************************************)
(* Claims about the worktree registry reader                               *)
(***************************************************************************)

\* C4 as claimed: whatever the listing and whatever the top-level query
\* does, _list_worktrees(exclude_current=True) returns no record whose path
\* is the path of the main checkout.
MainNeverListed ==
    (Returned(listed) /\ excludeCurrent) =>
        \A i \in 1..Len(listed.val) :
            listed.val[i].path.some => listed.val[i].path.val # MainPath

\* C9 as claimed: _list_worktrees never lets an error out, and returns the
\* empty list whenever the git invocation fails.
ListNeverRaises ==
    Called(listed) =>
        /\ Returned(listed)
        /\ gitList.outcome # "ok" => listed.val = <<>>

\* The lines given to the parser, and the positions of its "worktree "
\* lines.
InputLines == SplitLines(gitList.stdout)
StartLines == {i \in 1..Len(InputLines) : StartsWith(InputLines[i], "worktree ")}
StartOf(k) == CHOOSE i \in StartLines : Cardinality({j \in StartLines : j <= i}) = k
BlockOf(k) ==
    {i \in 1..Len(InputLines) :
        /\ i > StartOf(k)
        /\ \A j \in StartLines : j > StartOf(k) => i < j}
LastIn(k, prefix) ==
    LET hits == {i \in BlockOf(k) : StartsWith(InputLines[i], prefix)}
    IN  IF hits = {} THEN None ELSE Some(InputLines[Max(hits)])

\* C10 as claimed: for every line sequence the parser returns exactly one
\* record per "worktree " line, in input order, each with the path of its
\* start line and with branch, commit and detached taken only from the
\* recognised lines of its block.
OneRecordPerWorktreeLine ==
    (Returned(listed) /\ gitList.outcome = "ok" /\ ~excludeCurrent) =>
        /\ Len(listed.val) = Cardinality(StartLines)
        /\ \A k \in 1..Len(listed.val) :
               LET w == listed.val[k]
               IN  /\ w.path = Some(Tail(InputLines[StartOf(k)]))
                   /\ w.detached = LastIn(k, "detached").some
                   /\ w.commit.some = LastIn(k, "HEAD ").some
                   /\ w.commit.some => w.commit.val = Tail(LastIn(k, "HEAD ").val)
                   /\ w.branch.some = LastIn(k, "branch ").some
                   /\ w.branch.some => w.branch.val = BranchOf(LastIn(k, "branch ").val)

(***************************************************************************)
(* worktree remove                                                         *)
(***************************************************************************)

\* `sub in s` on token sequences: sub occurs in s as a contiguous run.
Contains(s, sub) ==
    \E i \in 1..(Len(s) - Len(sub) + 1) : SubSeq(s, i, i + Len(sub) - 1) = sub

\* w.get("branch", "") and w.get("branch")
BranchText(w) == IF w.branch.some THEN w.branch.val ELSE <<>>
HasBranch(w) == w.branch.some /\ w.branch.val # <<>>

\* Line 268: name in w["path"] or name in w.get("branch", "")
Matches(w, name) == Contains(w.path.val, name) \/ Contains(BranchText(w), name)

\* Lines 284 and 309: f"{Path(w['path']).name}-devcontainer"
ContainerBaseName(w) == PathName(w.path.val) \o <<"-devcontainer">>

\* _get_running_container_name for the worktree w, with the docker of the
\* model.
ContainerOf(w) == get_running_container_name(psOutcome, psStdout, ContainerBaseName(w))

\* Lines 307-312: containers_to_stop, for the targets whose container runs.
ContainersToStop(targets) ==
    {<<targets[i].path.val, ContainerOf(targets[i]).val.val>> :
        i \in {j \in 1..Len(targets) : ContainerOf(targets[j]).val.some}}

\* path in containers_to_stop, containers_to_stop[path]
HasContainer(path) == \E c \in containersToStop : c[1] = path
ContainerFor(path) == (CHOOSE c \in containersToStop : c[1] = path)[2]

\* One external command that changes something.
Effect(op, w, arg, ok) == [op |-> op, wt |-> w.path.val, arg |-> arg, ok |-> ok]

\* The porcelain block of one worktree.
Block(path, head, branchName) ==
    << <<"worktree ">> \o path, <<"HEAD ", head>> >>
    \o (IF branchName = <<>> THEN << <<"detached">> >>
        ELSE << <<"branch ", "refs/heads/">> \o branchName >>)
    \o << <<>> >>

TmpPath == <<"/", "work", "/", "repo", "-", "tmp">>
MainBlock == Block(MainPath, "abc123", <<"main">>)
FixBlock == Block(FixPath, "def456", <<"fix">>)
TmpBlock == Block(TmpPath, "abc123", <<>>)

\* What `git worktree list --porcelain` prints: the main checkout first,
\* then the linked worktrees.
Listings ==
    {Concat(MainBlock), Concat(MainBlock \o FixBlock),
     Concat(MainBlock \o FixBlock \o TmpBlock)}

\* What `docker ps` prints in the model of remove.
PsTexts ==
    {<<>>,
     JoinLines(<< PathName(FixPath) \o <<"-devcontainer", "-1">> >>),
     JoinLines(<< PathName(MainPath) \o <<"-devcontainer">>,
                  PathName(FixPath) \o <<"-devcontainer">> >>)}

\* The selectors of the model: none (interactive), a branch, a name that
\* matches nothing, a directory above the worktrees.
Selectors == {<<>>, <<"fix">>, <<"zzz">>, <<"work">>}

InitRemove ==
    /\ rmArgs \in [name : Selectors, all : BOOLEAN, force : BOOLEAN,
                    delete_branch : BOOLEAN]
    /\ rpc = "start"
    /\ toRemove = <<>>
    /\ containersToStop = {}
    /\ deleteContainers = FALSE
    /\ deleteBranch = rmArgs.delete_branch
    /\ mainPath = None
    /\ idx = 1
    /\ effects = <<>>
    /\ said = {}
    /\ rmExc = "none"

\* The environment of a remove command.
InitRemoveEnv ==
    /\ gitList \in {[outcome |-> o, stdout |-> <<>>] : o \in {"nonzero", "missing"}}
                   \cup {[outcome |-> "ok", stdout |-> t] : t \in Listings}
    /\ topLevel \in TopLevels
    /\ excludeCurrent = TRUE
    /\ listed = NotCalled
    /\ psOutcome \in RunOutcomes
    /\ psStdout \in IF psOutcome = "ok" THEN PsTexts ELSE {<<>>}
    /\ containerName = <<>>
    /\ resolved = NotCalled
    /\ isRunning = NotCalled

\* No remove command runs.
IdleRemove ==
    /\ rmArgs = [name |-> <<>>, all |-> FALSE, force |-> FALSE, delete_branch |-> FALSE]
    /\ rpc = "idle"
    /\ toRemove = <<>>
    /\ containersToStop = {}
    /\ deleteContainers = FALSE
    /\ deleteBranch = FALSE
    /\ mainPath = None
    /\ idx = 1
    /\ effects = <<>>
    /\ said = {}
    /\ rmExc = "none"

rmEnv == <<branchVars, prefVars, psOutcome, psStdout, containerName, resolved,
           isRunning, gitList, topLevel, excludeCurrent, openVars, crVars, moreVars>>

\* Lines 254-259: the worktrees, the main checkout excluded.
RmList ==
    /\ rpc = "start"
    /\ listed' = list_worktrees(gitList, topLevel, TRUE)
    /\ rmExc' = IF Returned(listed') THEN "none" ELSE listed'.exc
    /\ rpc' = IF ~Returned(listed') THEN "raised"
              ELSE IF listed'.val = <<>> THEN "done" ELSE "select"
    /\ said' = IF Returned(listed') /\ listed'.val = <<>>
               THEN said \cup {"No worktrees found to remove"} ELSE said
    /\ UNCHANGED <<rmArgs, toRemove, containersToStop, deleteContainers,
                   deleteBranch, mainPath, idx, effects>>
    /\ UNCHANGED rmEnv

\* Lines 264-265: --all.
RmSelectAll ==
    /\ rpc = "select"
    /\ rmArgs.all
    /\ toRemove' = listed.val
    /\ rpc' = "containers"
    /\ UNCHANGED <<rmArgs, containersToStop, deleteContainers, deleteBranch,
                   mainPath, idx, effects, said, rmExc, listed>>
    /\ UNCHANGED rmEnv

\* Lines 266-274: a name.
RmSelectByName ==
    /\ rpc = "select"
    /\ ~rmArgs.all
    /\ rmArgs.name # <<>>
    /\ LET matches == SelectSeq(listed.val, LAMBDA w : Matches(w, rmArgs.name))
       IN  /\ toRemove' = matches
           /\ rpc' = IF matches = <<>> THEN "done" ELSE "containers"
           /\ said' = IF matches = <<>>
                      THEN said \cup {"No worktrees matching"} ELSE said
    /\ UNCHANGED <<rmArgs, containersToStop, deleteContainers, deleteBranch,
                   mainPath, idx, effects, rmExc, listed>>
    /\ UNCHANGED rmEnv

\* Lines 275-304: the checkbox; the labels ask docker for every worktree.
RmSelectInteractive ==
    /\ rpc = "select"
    /\ ~rmArgs.all
    /\ rmArgs.name = <<>>
    /\ IF \E i \in 1..Len(listed.val) : ~Returned(ContainerOf(listed.val[i]))
       THEN /\ rpc' = "raised"
            /\ rmExc' = "FileNotFoundError"
            /\ UNCHANGED <<toRemove, said>>
       ELSE \E chosen \in SUBSET (1..Len(listed.val)) :
                /\ toRemove' = Pick(listed.val, chosen)
                /\ rpc' = IF chosen = {} THEN "done" ELSE "containers"
                /\ said' = IF chosen = {}
                           THEN said \cup {"No worktrees selected"} ELSE said
                /\ UNCHANGED rmExc
    /\ UNCHANGED <<rmArgs, containersToStop, deleteContainers, deleteBranch,
                   mainPath, idx, effects, listed>>
    /\ UNCHANGED rmEnv

\* Lines 306-312: the running containers of the targets.
RmCheckContainers ==
    /\ rpc = "containers"
    /\ IF \E i \in 1..Len(toRemove) : ~Returned(ContainerOf(toRemove[i]))
       THEN /\ rpc' = "raised"
            /\ rmExc' = "FileNotFoundError"
            /\ UNCHANGED containersToStop
       ELSE /\ containersToStop' = ContainersToStop(toRemove)
            /\ rpc' = "ask"
            /\ UNCHANGED rmExc
    /\ UNCHANGED <<rmArgs, toRemove, deleteContainers, deleteBranch, mainPath,
                   idx, effects, said, listed>>
    /\ UNCHANGED rmEnv

\* Lines 314-337 with --force: no question is asked.
RmForce ==
    /\ rpc = "ask"
    /\ rmArgs.force
    /\ rpc' = "mainpath"
    /\ UNCHANGED <<rmArgs, toRemove, containersToStop, deleteContainers,
                   deleteBranch, mainPath, idx, effects, said, rmExc, listed>>
    /\ UNCHANGED rmEnv

\* A remove that goes on whatever the answer to "Continue?".
AfterConfirmGoOn(ansContinue) == "mainpath"

\* Lines 335-337: a declined "Continue?" ends remove.
AfterConfirm(ansContinue) == IF ansContinue THEN "mainpath" ELSE "done"

\* Lines 314-337 without --force: the questions about containers and
\* branches, then the confirmation.
RmAsk ==
    /\ rpc = "ask"
    /\ ~rmArgs.force
    /\ \E ansContainers, ansBranches, ansContinue \in BOOLEAN :
        /\ deleteContainers' = (containersToStop # {} /\ ansContainers)
        /\ deleteBranch' =
              IF ~deleteBranch /\ \E i \in 1..Len(toRemove) : HasBranch(toRemove[i])
              THEN ansBranches ELSE deleteBranch
        /\ rpc' = AfterConfirm(ansContinue)
        /\ said' = IF ansContinue THEN said ELSE said \cup {"Cancelled"}
    /\ UNCHANGED <<rmArgs, toRemove, containersToStop, mainPath, idx, effects,
                   rmExc, listed>>
    /\ UNCHANGED rmEnv

\* Line 340: main_path = _get_main_worktree_path()
RmMainPath ==
    /\ rpc = "mainpath"
    /\ \E top \in TopLevels : mainPath' = get_main_worktree_path(top).val
    /\ rpc' = "loop"
    /\ UNCHANGED <<rmArgs, toRemove, containersToStop, deleteContainers,
                   deleteBranch, idx, effects, said, rmExc, listed>>
    /\ UNCHANGED rmEnv

\* Line 346: main_path and Path(path) == main_path
IsMainRepository(w) == mainPath.some /\ PathOf(w.path.val) = mainPath.val

\* Lines 345-349: the safety check skips the main repository.
RmSkipMain ==
    /\ rpc = "loop"
    /\ idx <= Len(toRemove)
    /\ IsMainRepository(toRemove[idx])
    /\ said' = said \cup {"Cannot remove main repository"}
    /\ idx' = idx + 1
    /\ UNCHANGED <<rmArgs, rpc, toRemove, containersToStop, deleteContainers,
                   deleteBranch, mainPath, effects, rmExc, listed>>
    /\ UNCHANGED rmEnv

\* A remove that stops the container of every target that has one.
StopEffectsWhenRunning(w, stopOk, rmOk) ==
    IF HasContainer(w.path.val)
    THEN << Effect("docker stop", w, ContainerFor(w.path.val), stopOk),
            Effect("docker rm", w, ContainerFor(w.path.val), rmOk) >>
    ELSE <<>>

\* Lines 352-360: docker stop and docker rm, when the user asked for it
\* and the target has a running container (check=False: a non-zero exit
\* raises nothing).
StopEffects(w, stopOk, rmOk) ==
    IF deleteContainers /\ HasContainer(w.path.val)
    THEN << Effect("docker stop", w, ContainerFor(w.path.val), stopOk),
            Effect("docker rm", w, ContainerFor(w.path.val), rmOk) >>
    ELSE <<>>

\* A directory delete whether or not the removal failed and the directory
\* is there.
RemoveEffectsAlwaysClean(w, removeOk, branchOk, dirExists, rmtreeOk) ==
    << Effect("git worktree remove", w, w.path.val, removeOk) >>
    \o (IF removeOk /\ deleteBranch /\ HasBranch(w)
        THEN << Effect("git branch -D", w, w.branch.val, branchOk) >>
        ELSE <<>>)
    \o << Effect("rmtree", w, w.path.val, rmtreeOk) >>

\* Lines 364-390: git worktree remove --force; then, when it succeeded,
\* git branch -D if asked for; when it failed, Path.exists and, if the
\* directory exists, shutil.rmtree.
RemoveEffects(w, removeOk, branchOk, dirExists, rmtreeOk) ==
    << Effect("git worktree remove", w, w.path.val, removeOk) >>
    \o (IF removeOk /\ deleteBranch /\ HasBranch(w)
        THEN << Effect("git branch -D", w, w.branch.val, branchOk) >>
        ELSE <<>>)
    \o (IF ~removeOk
        THEN << Effect("Path.exists", w, w.path.val, dirExists) >>
        ELSE <<>>)
    \o (IF ~removeOk /\ dirExists
        THEN << Effect("rmtree", w, w.path.val, rmtreeOk) >>
        ELSE <<>>)

\* A loop that stops at the first worktree whose removal failed.
NextTargetUnlessFailed(i, removeOk) == IF removeOk THEN i + 1 ELSE Len(toRemove) + 1

\* Line 341: the for loop goes on to the next target whatever happened
\* to this one (both except clauses of lines 374 and 377 fall through).
NextTarget(i, removeOk) == i + 1

\* Lines 351-390: one target of the loop.
RmTarget ==
    /\ rpc = "loop"
    /\ idx <= Len(toRemove)
    /\ ~IsMainRepository(toRemove[idx])
    /\ \E removeOk, branchOk, dirExists, rmtreeOk, stopOk, rmOk \in BOOLEAN :
        /\ StopEffects(toRemove[idx], TRUE, TRUE) = <<>> => (stopOk /\ rmOk)
        /\ removeOk => (dirExists /\ rmtreeOk)
        /\ ~(removeOk /\ deleteBranch /\ HasBranch(toRemove[idx])) => branchOk
        /\ ~dirExists => rmtreeOk
        /\ effects' = effects \o StopEffects(toRemove[idx], stopOk, rmOk)
                      \o RemoveEffects(toRemove[idx], removeOk, branchOk, dirExists, rmtreeOk)
        /\ idx' = NextTarget(idx, removeOk)
    /\ UNCHANGED <<rmArgs, rpc, toRemove, containersToStop, deleteContainers,
                   deleteBranch, mainPath, said, rmExc, listed>>
    /\ UNCHANGED rmEnv

\* Lines 392-397: git worktree prune, its failure ignored.
RmPrune ==
    /\ rpc = "loop"
    /\ idx > Len(toRemove)
    /\ \E pruneOk \in BOOLEAN :
        effects' = Append(effects, [op |-> "git worktree prune", wt |-> <<>>,
                                    arg |-> <<>>, ok |-> pruneOk])
    /\ rpc' = "done"
    /\ UNCHANGED <<rmArgs, toRemove, containersToStop, deleteContainers,
                   deleteBranch, mainPath, idx, said, rmExc, listed>>
    /\ UNCHANGED rmEnv

NextRemove ==
    \/ RmList
    \/ RmSelectAll
    \/ RmSelectByName
    \/ RmSelectInteractive
    \/ RmCheckContainers
    \/ RmForce
    \/ RmAsk
    \/ RmMainPath
    \/ RmSkipMain
    \/ RmTarget
    \/ RmPrune

(***************************************************************************)
(* Claims about worktree remove                                            *)
(***************************************************************************)

Destructive == {"git worktree remove", "rmtree", "git branch -D"}

\* C1 as claimed: whatever the selector, the flags and the outcomes of the
\* git queries, remove runs neither git worktree remove --force, nor the
\* recursive delete, nor a branch deletion on the main checkout.
MainNeverRemoved ==
    \A i \in 1..Len(effects) :
        effects[i].op \in Destructive => PathOf(effects[i].wt) # PathOf(MainPath)

\* The selector occurs in the worktree's directory name or in its branch.
NamedBy(w, name) == Contains(PathName(w.path.val), name) \/ Contains(BranchText(w), name)

\* remove was called with a selector, and not with --all.
SelectorMode == ~rmArgs.all /\ rmArgs.name # <<>>

NoMatchSaid == "No worktrees matching" \in said

\* C12 as claimed: remove with a selector that matches no worktree of a
\* non-empty list, by directory name or by branch, says "No worktrees
\* matching" and runs no external command: no container stop, no removal,
\* no branch deletion, no directory delete, no prune.
NoMatchNoMutation ==
    (/\ SelectorMode
     /\ Returned(listed)
     /\ listed.val # <<>>
     /\ \A i \in 1..Len(listed.val) : ~NamedBy(listed.val[i], rmArgs.name)) =>
        /\ effects = <<>>
        /\ rpc \in {"select", "done"}
        /\ rpc = "done" => NoMatchSaid

\* C13 as claimed: with a selector, a worktree whose directory name and
\* whose branch both do not contain the selector is never a target.
OnlyNamedTargets ==
    SelectorMode => \A i \in 1..Len(toRemove) : NamedBy(toRemove[i], rmArgs.name)

\* remove has passed the confirmation of lines 326-337.
StoppedEarly ==
    said \cap {"No worktrees found to remove", "No worktrees matching",
               "No worktrees selected", "Cancelled"} # {}
Confirmed == rpc \in {"mainpath", "loop"} \/ (rpc = "done" /\ ~StoppedEarly)

Attempted(w) ==
    \E i \in 1..Len(effects) :
        effects[i].op = "git worktree remove" /\ effects[i].wt = w.path.val
Prunes == {i \in 1..Len(effects) : effects[i].op = "git worktree prune"}

\* C16: once the confirmation is passed, no failure stops remove: every
\* target the loop has gone past was attempted (or was refused as the main
\* repository), no prune runs before the last target, and at the end
\* every target was attempted and git worktree prune ran exactly once, as
\* the last command.
FailuresNeverAbort ==
    /\ rpc = "mainpath" => effects = <<>>
    /\ rpc = "loop" =>
          /\ Prunes = {}
          /\ \A k \in 1..Min({idx - 1, Len(toRemove)}) :
                 IsMainRepository(toRemove[k]) \/ Attempted(toRemove[k])
    /\ (rpc = "done" /\ Confirmed) =>
          /\ rmExc = "none"
          /\ Prunes = {Len(effects)}
          /\ \A k \in 1..Len(toRemove) :
                 IsMainRepository(toRemove[k]) \/ Attempted(toRemove[k])

\* C16 witness: a removal or a branch deletion failed, the removal of
\* another worktree was run after it, and remove ended with the prune.
WentOnAfterFailure ==
    /\ rpc = "done"
    /\ Prunes # {}
    /\ \E i, j \in 1..Len(effects) :
           /\ i < j
           /\ effects[i].op \in {"git worktree remove", "git branch -D"}
           /\ ~effects[i].ok
           /\ effects[j].op = "git worktree remove"
           /\ effects[j].wt # effects[i].wt

\* effects[i] exists, is the command op on the worktree at path wt.
IsEffect(i, op, wt) ==
    i \in 1..Len(effects) /\ effects[i].op = op /\ effects[i].wt = wt

\* C17: for each target, docker stop and docker rm come right before the
\* forced removal of that worktree; git branch -D comes only right after
\* that worktree's removal succeeded; shutil.rmtree comes only after that
\* worktree's removal failed and its directory was found to exist.
StepsInOrder ==
    \A i \in 1..Len(effects) :
        LET e == effects[i]
        IN  /\ e.op = "docker stop" =>
                  /\ IsEffect(i + 1, "docker rm", e.wt)
                  /\ IsEffect(i + 2, "git worktree remove", e.wt)
            /\ e.op = "docker rm" => IsEffect(i - 1, "docker stop", e.wt)
            /\ e.op = "git branch -D" =>
                  /\ IsEffect(i - 1, "git worktree remove", e.wt)
                  /\ effects[i - 1].ok
            /\ e.op = "Path.exists" =>
                  /\ IsEffect(i - 1, "git worktree remove", e.wt)
                  /\ ~effects[i - 1].ok
            /\ e.op = "rmtree" =>
                  /\ IsEffect(i - 1, "Path.exists", e.wt)
                  /\ effects[i - 1].ok
                  /\ IsEffect(i - 2, "git worktree remove", e.wt)
                  /\ ~effects[i - 2].ok

\* C17 witness: one remove stopped a container, deleted a branch after a
\* successful removal and deleted a directory after a failed one.
AllStepsTaken ==
    /\ rpc = "done"
    /\ \E i \in 1..Len(effects) : effects[i].op = "docker stop"
    /\ \E i \in 1..Len(effects) : effects[i].op = "git branch -D"
    /\ \E i \in 1..Len(effects) : effects[i].op = "rmtree"

\* C26: when the user declines the final "Continue?" of a remove without
\* --force, nothing outside is changed: no container is stopped or
\* removed, no worktree removed, no branch deleted, no directory deleted,
\* and prune is not run.
DeclineChangesNothing ==
    "Cancelled" \in said => (effects = <<>> /\ rpc = "done" /\ ~rmArgs.force)

\* C26 witness: a remove with targets, one of them with a running
\* container, was declined.
DeclinedWithTargets ==
    /\ rpc = "done"
    /\ "Cancelled" \in said
    /\ toRemove # <<>>
    /\ containersToStop # {}

ContainerCommands == {"docker stop", "docker rm"}

\* C27: a container is stopped and removed only when the user answered
\* yes to "Delete associated containers?", so never with --force, even
\* for a target whose container runs; and a docker stop that fails is
\* still followed by the removal of that worktree.
ContainersOnlyOnYes ==
    \A i \in 1..Len(effects) :
        effects[i].op \in ContainerCommands =>
            /\ deleteContainers
            /\ ~rmArgs.force
            /\ \E c \in containersToStop : c = <<effects[i].wt, effects[i].arg>>
            /\ effects[i].op = "docker stop" =>
                  IsEffect(i + 2, "git worktree remove", effects[i].wt)

\* C27 witness: a docker stop failed and the worktree was removed all the
\* same.
RemovedAfterFailedStop ==
    /\ rpc = "done"
    /\ \E i \in 1..Len(effects) :
           /\ effects[i].op = "docker stop"
           /\ ~effects[i].ok
           /\ IsEffect(i + 2, "git worktree remove", effects[i].wt)
           /\ effects[i + 2].ok

(***************************************************************************)
(* IDE launcher                                                            *)
(***************************************************************************)

\* check_command_exists(command): shutil.which(command) is not None
check_command_exists(command, have) == command \in have

\* f"{cmd[0]}.sh"
WithSh(command) == command \o <<".sh">>

\* Lines 1014-1028: the command of a regular IDE; the kinds of IDE that are
\* neither VSCODE nor a key of ide_commands have none.
IdeCommand(ide) ==
    CASE ide = "vscode" -> Some(<<"code">>)
      [] ide = "pycharm" -> Some(<<"pycharm">>)
      [] ide = "rider" -> Some(<<"rider">>)
      [] ide = "goland" -> Some(<<"goland">>)
      [] OTHER -> None

\* A lookup that does not try the .sh variant.
ResolveCommandNoRetry(command, have) ==
    IF check_command_exists(command, have) THEN Some(command) ELSE None

\* Lines 1031-1038: the command, else its .sh variant, else nothing.
ResolveCommand(command, have) ==
    IF check_command_exists(command, have) THEN Some(command)
    ELSE IF check_command_exists(WithSh(command), have) THEN Some(WithSh(command))
    ELSE None

\* Lines 910-914: required_images
RequiredImages == {"devcontainer", "tinyproxy", "docker-dind"}

\* check_docker_images(required_images, console): the images that exist
\* and those that are missing.
check_docker_images(required, present) ==
    [existing |-> required \cap present, missing |-> required \ present]

\* prompt_build_images(missing, console): whether the user agrees to
\* build the missing images.
prompt_build_images(missing, answer) == answer

\* One external process.
Process(cmd, arg, result) == [cmd |-> cmd, arg |-> arg, result |-> result]

\* The commands the model may find on PATH for one kind of IDE.
CommandsFor(ide) ==
    {<<"devcontainer">>}
    \cup (IF IdeCommand(ide).some
          THEN {IdeCommand(ide).val, WithSh(IdeCommand(ide).val)} ELSE {})

InitOpen ==
    /\ oIde \in IDEValues
    /\ oHave \in SUBSET CommandsFor(oIde)
    /\ opc = "start"
    /\ oWorks = FALSE
    /\ oLog = <<>>
    /\ oSaid = {}
    /\ oExc = "none"
    /\ oCwd = "original"

\* No _open_ide call runs.
IdleOpen ==
    /\ oIde = "vscode"
    /\ oHave = {}
    /\ opc = "idle"
    /\ oWorks = FALSE
    /\ oLog = <<>>
    /\ oSaid = {}
    /\ oExc = "none"
    /\ oCwd = "original"

openEnv == <<branchVars, ctrVars, prefVars, listVars, rmVars, crVars, moreVars, oIde, oHave>>

\* Lines 893-901: the devcontainer kind needs the devcontainer CLI.
OpenDevcontainer ==
    /\ opc = "start"
    /\ oIde = "devcontainer"
    /\ IF check_command_exists(<<"devcontainer">>, oHave)
       THEN opc' = "images" /\ UNCHANGED oSaid
       ELSE opc' = "done" /\ oSaid' = oSaid \cup {"devcontainer CLI not found"}
    /\ UNCHANGED <<oWorks, oLog, oExc, oCwd>>
    /\ UNCHANGED openEnv

\* Lines 903-931: the required images; the build runs outside any try.
OpenImages ==
    /\ opc = "images"
    /\ \E present \in {RequiredImages, RequiredImages \ {"tinyproxy"}, {}},
          answer \in BOOLEAN, build \in {"ok", "nonzero", "missing"} :
          LET missing == check_docker_images(RequiredImages, present).missing
          IN  IF missing = {}
              THEN opc' = "probe" /\ UNCHANGED <<oLog, oSaid, oExc>>
              ELSE IF ~prompt_build_images(missing, answer)
              THEN /\ opc' = "done"
                   /\ oSaid' = oSaid \cup {"Cannot start DevContainer without required images"}
                   /\ UNCHANGED <<oLog, oExc>>
              ELSE /\ oLog' = Append(oLog, Process("ai-sbx image build", <<>>, build))
                   /\ opc' = CASE build = "ok" -> "probe"
                               [] build = "nonzero" -> "done"
                               [] OTHER -> "raised"
                   /\ oSaid' = IF build = "nonzero"
                               THEN oSaid \cup {"Failed to build images"} ELSE oSaid
                   /\ oExc' = IF build = "missing" THEN "FileNotFoundError" ELSE oExc
    /\ UNCHANGED <<oWorks, oCwd>>
    /\ UNCHANGED openEnv

\* Lines 935-936: os.chdir(str(worktree_path)); a chdir that raises leaves
\* the process where it was.
Chdir(cwd, ok) == IF ok THEN "worktree" ELSE cwd

\* Lines 981-986, 1005 and 1009-1011: os.chdir(original_cwd) follows an
\* `up` that exited with a nonzero status and a shell that returned; an
\* `up` that exited with 0 goes on, and the handler of an exception
\* returns without it.
CwdAfter(cwd, result) == IF result = "raised" THEN cwd ELSE "original"

\* Lines 933-954: chdir to the worktree, then the version probe, which
\* works when it exits with 0 and prints something; its exceptions are
\* swallowed.
OpenProbe ==
    /\ opc = "probe"
    /\ \E chdirOk \in BOOLEAN, probe \in {"version", "silent", "nonzero", "raised"} :
          IF ~chdirOk
          THEN /\ opc' = "done"
               /\ oSaid' = oSaid \cup {"Failed to start DevContainer"}
               /\ oCwd' = Chdir(oCwd, FALSE)
               /\ UNCHANGED <<oLog, oWorks>>
          ELSE /\ oLog' = Append(oLog, Process("devcontainer --version", <<>>, probe))
               /\ oWorks' = (probe = "version")
               /\ opc' = "up"
               /\ oCwd' = Chdir(oCwd, TRUE)
               /\ UNCHANGED oSaid
    /\ UNCHANGED oExc
    /\ UNCHANGED openEnv

\* Lines 956-979: devcontainer up, or docker compose up.
UpCommand(works) == IF works THEN "devcontainer up" ELSE "docker compose up"

\* A launcher that opens the shell whatever `up` returned.
AfterUpAlwaysShell(result) == "shell"

\* Lines 981-988 and 1009-1011: the shell only after `up` returned 0.
AfterUp(result) == IF result = "ok" THEN "shell" ELSE "done"

\* Lines 956-988.
OpenUp ==
    /\ opc = "up"
    /\ \E result \in {"ok", "nonzero", "raised"} :
          /\ oLog' = Append(oLog, Process(UpCommand(oWorks), <<>>, result))
          /\ opc' = AfterUp(result)
          /\ oSaid' = oSaid
                \cup (IF oWorks THEN {} ELSE {"DevContainer CLI not responding"})
                \cup (CASE result = "ok" -> {"DevContainer started successfully"}
                        [] result = "nonzero" -> {"Failed to start DevContainer (exit code)"}
                        [] OTHER -> {"Failed to start DevContainer"})
          /\ oCwd' = IF result = "ok" THEN oCwd ELSE CwdAfter(oCwd, result)
    /\ UNCHANGED <<oWorks, oExc>>
    /\ UNCHANGED openEnv

\* Lines 994-1003: devcontainer exec, or docker exec.
ShellCommand(works) == IF works THEN "devcontainer exec" ELSE "docker exec"

\* Lines 990-1011: the interactive shell; its exit status is not looked
\* at, its exceptions are reported.
OpenShell ==
    /\ opc = "shell"
    /\ \E result \in {"ok", "nonzero", "raised"} :
          /\ oLog' = Append(oLog, Process(ShellCommand(oWorks), <<>>, result))
          /\ oSaid' = oSaid \cup (IF result = "raised"
                                   THEN {"Failed to start DevContainer"}
                                   ELSE {"DevContainer session ended"})
          /\ oCwd' = CwdAfter(oCwd, result)
    /\ opc' = "done"
    /\ UNCHANGED <<oWorks, oExc>>
    /\ UNCHANGED openEnv

\* Lines 1013-1048 for a kind that has a command: look it up, then Popen.
OpenRegular ==
    /\ opc = "start"
    /\ oIde # "devcontainer"
    /\ IdeCommand(oIde).some
    /\ LET cmd == ResolveCommand(IdeCommand(oIde).val, oHave)
       IN  IF ~cmd.some
           THEN /\ oSaid' = oSaid \cup {"IDE command not found"}
                /\ UNCHANGED oLog
           ELSE \E result \in {"ok", "raised"} :
                   /\ oLog' = Append(oLog, Process("Popen", cmd.val, result))
                   /\ oSaid' = oSaid \cup (IF result = "ok"
                                            THEN {"opened in background"}
                                            ELSE {"Failed to open"})
    /\ opc' = "done"
    /\ UNCHANGED <<oWorks, oExc, oCwd>>
    /\ UNCHANGED openEnv

\* Lines 1025-1026: a kind without a command: return.
OpenUnsupported ==
    /\ opc = "start"
    /\ oIde # "devcontainer"
    /\ ~IdeCommand(oIde).some
    /\ opc' = "done"
    /\ UNCHANGED <<oWorks, oLog, oSaid, oExc, oCwd>>
    /\ UNCHANGED openEnv

NextOpen ==
    \/ OpenDevcontainer
    \/ OpenImages
    \/ OpenProbe
    \/ OpenUp
    \/ OpenShell
    \/ OpenRegular
    \/ OpenUnsupported

(***************************************************************************)
(* Claims about the IDE launcher                                           *)
(***************************************************************************)

UpCommands == {"devcontainer up", "docker compose up"}
ShellCommands == {"devcontainer exec", "docker exec"}

Ran(i, cmds) == i \in 1..Len(oLog) /\ oLog[i].cmd \in cmds

\* C18: for the devcontainer kind no step is skipped: without the
\* devcontainer tool no process is run; the build, if any, comes first and
\* the probe follows only a build that succeeded; `up` follows the probe,
\* through the devcontainer CLI exactly when the probe printed a version
\* and through docker compose otherwise; the shell follows only an `up`
\* that exited with 0, and an `up` that exited with 0 is followed by the
\* shell; nothing runs after a declined build.
DevcontainerStepsInOrder ==
    oIde = "devcontainer" =>
        /\ <<"devcontainer">> \notin oHave => oLog = <<>>
        /\ "Cannot start DevContainer without required images" \in oSaid => oLog = <<>>
        /\ \A i \in 1..Len(oLog) :
              LET e == oLog[i]
              IN  /\ e.cmd = "ai-sbx image build" => i = 1
                  /\ e.cmd = "devcontainer --version" =>
                        /\ i = 1 \/ (Ran(i - 1, {"ai-sbx image build"})
                                      /\ oLog[i - 1].result = "ok")
                        /\ i < Len(oLog) =>
                              oLog[i + 1].cmd = (IF e.result = "version"
                                                 THEN "devcontainer up"
                                                 ELSE "docker compose up")
                  /\ e.cmd \in UpCommands => Ran(i - 1, {"devcontainer --version"})
                  /\ e.cmd \in ShellCommands =>
                        (Ran(i - 1, UpCommands) /\ oLog[i - 1].result = "ok")
                  /\ e.cmd \in UpCommands \cup ShellCommands
                        \cup {"ai-sbx image build", "devcontainer --version"}
        /\ (opc = "done" /\ oLog # <<>>) =>
              LET last == oLog[Len(oLog)]
              IN  /\ last.cmd # "devcontainer --version"
                  /\ last.cmd \in UpCommands => last.result # "ok"
                  /\ (last.cmd = "ai-sbx image build" /\ last.result = "ok") =>
                        "Failed to start DevContainer" \in oSaid

\* C18 witness: the images were built, the probe printed nothing, docker
\* compose brought the container up and the shell was opened in it.
ShellThroughCompose ==
    /\ opc = "done"
    /\ Len(oLog) = 4
    /\ oLog[1].cmd = "ai-sbx image build"
    /\ oLog[2].result = "silent"
    /\ oLog[3].cmd = "docker compose up"
    /\ oLog[4].cmd = "docker exec"

\* An IDE or a shell was started.
Started ==
    \E i \in 1..Len(oLog) :
        oLog[i].cmd \in ShellCommands \cup {"Popen"} /\ oLog[i].result # "raised"

\* A failure was reported to the user.
Reported ==
    oSaid \cap {"devcontainer CLI not found", "Failed to build images",
                "Cannot start DevContainer without required images",
                "Failed to start DevContainer", "Failed to start DevContainer (exit code)",
                "IDE command not found", "Failed to open"} # {}

\* C19 as claimed: for every kind of the IDE enumeration and every outcome
\* of the external calls, _open_ide returns without raising, and when it
\* started no IDE and no shell it has reported the failure.
OpenNeverFailsSilently ==
    /\ oExc = "none"
    /\ opc = "done" => (Started \/ Reported)

\* C28 as claimed: _open_ide leaves the working directory of the process
\* unchanged: on every return path of the devcontainer branch (tool
\* missing, build failed or declined, `up` failed, session ended,
\* exception caught) the working directory after the call is the one
\* before the call.
CwdRestored == (oIde = "devcontainer" /\ opc = "done") => oCwd = "original"

(***************************************************************************)
(* worktree create                                                         *)
(***************************************************************************)

\* A path without the repository's name in front of the branch.
WorktreePathNoPrefix(project_root, branchName) ==
    SubSeq(project_root, 1, Len(project_root) - Len(PathName(project_root)))
    \o branchName

\* Lines 120-122: project_root.parent / f"{project_root.name}-{branch}"
WorktreePath(project_root, branchName) ==
    SubSeq(project_root, 1, Len(project_root) - Len(PathName(project_root)))
    \o PathName(project_root) \o <<"-">> \o branchName

\* Lines 116-117: the --branch option, else the name derived from the
\* description.
BranchFor(args) ==
    IF args.branch # <<>> THEN args.branch ELSE generate_branch_name(args.description)

\* detect_ide (utils.py): the IDEs whose command is on PATH, in the order
\* of ide_commands.
detect_ide(installed) ==
    SelectSeq(<<"vscode", "pycharm", "rider", "goland", "claude">>,
              LAMBDA i : i \in installed)

\* _detect_available_ides: the detected names that ide_mapping knows.
detect_available_ides(installed) ==
    SelectSeq(detect_ide(installed),
              LAMBDA i : i \in {"vscode", "pycharm", "rider", "goland", "devcontainer"})

\* A resolution that takes the single detected IDE before it looks at the
\* stored preference.
ResolveIdeDetectedFirst(flag, pref, detected, no_open, answer) ==
    IF flag # "" THEN [ide |-> Some(flag), source |-> "flag"]
    ELSE IF Len(detected) = 1 THEN [ide |-> Some(detected[1]), source |-> "detected"]
    ELSE IF pref.some THEN [ide |-> pref, source |-> "preference"]
    ELSE IF Len(detected) > 1 /\ ~no_open THEN [ide |-> answer, source |-> "prompt"]
    ELSE [ide |-> None, source |-> "none"]

\* Lines 162-179: preferred_ide and where it comes from; `answer` is what
\* _prompt_ide_selection returns when it is called.
ResolveIde(flag, pref, detected, no_open, answer) ==
    IF flag # "" THEN [ide |-> Some(flag), source |-> "flag"]
    ELSE IF pref.some THEN [ide |-> pref, source |-> "preference"]
    ELSE IF Len(detected) > 1 /\ ~no_open THEN [ide |-> answer, source |-> "prompt"]
    ELSE IF Len(detected) = 1 THEN [ide |-> Some(detected[1]), source |-> "detected"]
    ELSE [ide |-> None, source |-> "none"]

\* The exit status of a click command whose callback never calls
\* sys.exit: 0 when it returns, 1 when an exception leaves it.
ExitCode(pc) == IF pc = "raised" THEN 1 ELSE 0

\* A create that goes on after a failed git worktree add.
AfterAddGoOn(result) == "secure"

\* Lines 133-143: after git worktree add: on, return, or the exception
\* that is not a CalledProcessError.
AfterAdd(result) ==
    CASE result = "ok" -> "secure"
      [] result = "nonzero" -> "done"
      [] OTHER -> "raised"

\* One step of create with an effect outside the process.
Step(op, arg, ok) == [op |-> op, arg |-> arg, ok |-> ok]

\* The inputs of the model.
CreateDescriptions == {ExampleDescription, <<"#", "!">>}
CreateBranches == {<<>>, <<"f", "i", "x">>}
CreateIdes == {"", "vscode", "devcontainer"}
CreateFiles ==
    {[exists |-> FALSE, text |-> <<>>]}
    \cup {[exists |-> TRUE, text |-> Concat(<<l>>)] :
            l \in { <<PrefKey, "=", "vscode">>, <<PrefKey, "=", "bogus">>,
                    <<PrefKey, "=", "\"", "pycharm", "\"">>,
                    <<PrefKey, "=", "claude", CR>> }}
CreateInstalled == {{}, {"pycharm"}, {"vscode", "pycharm"}, {"claude"}}
CreateDirs ==
    {{}, {<<"/", "work", "/", "repo", "-">> \o ExampleBranch},
     {<<"/", "work", "/", "repo", "-", "f", "i", "x">>}}

InitCreate ==
    /\ crArgs \in [description : CreateDescriptions, branch : CreateBranches,
                    ide : CreateIdes, no_open : BOOLEAN,
                    with_task_folder : {"none", "yes", "no"}]
    /\ cpc = "start"
    /\ cBranch = <<>>
    /\ cPath = <<>>
    /\ cFs \in CreateDirs
    /\ cInstalled \in CreateInstalled
    /\ cPreferred = None
    /\ cSource = "unresolved"
    /\ cEffects = <<>>
    /\ cGit = <<>>
    /\ cSaid = {}
    /\ cExc = "none"

\* The preference file a create starts with.
InitCreateEnv ==
    /\ userEnv0 \in CreateFiles
    /\ userEnv = userEnv0
    /\ prefCalls = 0
    /\ lastSave = NoSave
    /\ lastGet = NoGet

\* No create command runs.
IdleCreate ==
    /\ crArgs = [description |-> <<>>, branch |-> <<>>, ide |-> "", no_open |-> FALSE,
                 with_task_folder |-> "none"]
    /\ cpc = "idle"
    /\ cBranch = <<>>
    /\ cPath = <<>>
    /\ cFs = {}
    /\ cInstalled = {}
    /\ cPreferred = None
    /\ cSource = "unresolved"
    /\ cEffects = <<>>
    /\ cGit = <<>>
    /\ cSaid = {}
    /\ cExc = "none"

crEnv == <<branchVars, ctrVars, listVars, rmVars, openVars, moreVars, crArgs, cFs,
           cInstalled, userEnv0, prefCalls>>

\* A create that goes on without a project root.
AfterFindRootGoOn(found) == "devcontainer"

\* Lines 82-85: without a project root create returns.
AfterFindRoot(found) == IF found THEN "devcontainer" ELSE "done"

\* Lines 81-85: the project root.
CrFindRoot ==
    /\ cpc = "start"
    /\ \E found \in BOOLEAN :
          /\ cpc' = AfterFindRoot(found)
          /\ cSaid' = IF found THEN cSaid ELSE cSaid \cup {"Not in a git repository"}
    /\ UNCHANGED <<cBranch, cPath, cPreferred, cSource, cEffects, cExc,
                   userEnv, lastSave, lastGet>>
    /\ UNCHANGED <<crEnv, cGit>>

\* Lines 87-113: when .devcontainer exists, git ls-files tells whether it
\* is committed; the warning about an uncommitted one is a reason the user
\* may take to stop.
CrCheckCommitted ==
    /\ cpc = "devcontainer"
    /\ \E present, committed, goOn \in BOOLEAN :
          /\ ~present => (committed /\ goOn)
          /\ committed => goOn
          /\ cGit' = IF present THEN Append(cGit, "ls-files") ELSE cGit
          /\ cSaid' = IF committed THEN cSaid
                      ELSE cSaid \cup {".devcontainer folder is not committed to git"}
          /\ cpc' = IF committed \/ goOn THEN "name" ELSE "done"
    /\ UNCHANGED <<cBranch, cPath, cPreferred, cSource, cEffects, cExc,
                   userEnv, lastSave, lastGet>>
    /\ UNCHANGED crEnv

\* Lines 115-127: the branch, the worktree directory, and the refusal of
\* a directory that exists.
CrName ==
    /\ cpc = "name"
    /\ cBranch' = BranchFor(crArgs)
    /\ cPath' = WorktreePath(MainPath, cBranch')
    /\ cpc' = IF cPath' \in cFs THEN "done" ELSE "add"
    /\ cSaid' = IF cPath' \in cFs THEN cSaid \cup {"Worktree already exists"} ELSE cSaid
    /\ UNCHANGED <<cPreferred, cSource, cEffects, cExc, userEnv, lastSave, lastGet>>
    /\ UNCHANGED <<crEnv, cGit>>

\* Lines 129-143: git worktree add -b branch path.
CrAdd ==
    /\ cpc = "add"
    /\ \E result \in RunOutcomes :
          /\ cEffects' = Append(cEffects, Step("git worktree add", cPath, result = "ok"))
          /\ cGit' = Append(cGit, "worktree add")
          /\ cpc' = AfterAdd(result)
          /\ cSaid' = CASE result = "ok" -> cSaid \cup {"Worktree created"}
                        [] result = "nonzero" -> cSaid \cup {"Failed to create worktree"}
                        [] OTHER -> cSaid
          /\ cExc' = IF result = "missing" THEN "FileNotFoundError" ELSE cExc
    /\ UNCHANGED <<cBranch, cPath, cPreferred, cSource, userEnv, lastSave, lastGet>>
    /\ UNCHANGED crEnv

\* Lines 145-146 and _copy_secure_init: the script is copied when the
\* main checkout has one; a failing copy raises.
CrCopySecure ==
    /\ cpc = "secure"
    /\ \E present, copyOk \in BOOLEAN :
          /\ cEffects' = IF present
                         THEN Append(cEffects, Step("copy secure.init.sh", cPath, copyOk))
                         ELSE cEffects
          /\ cpc' = IF present /\ ~copyOk THEN "raised" ELSE "task"
          /\ cExc' = IF present /\ ~copyOk THEN "OSError" ELSE cExc
    /\ UNCHANGED <<cBranch, cPath, cPreferred, cSource, cSaid, userEnv, lastSave, lastGet>>
    /\ UNCHANGED <<crEnv, cGit>>

\* Lines 148-160 and _create_task_structure: the task folder, asked for
\* when the option is not given; its failure is a warning.
CrTaskFolder ==
    /\ cpc = "task"
    /\ \E answer, writeOk \in BOOLEAN :
          LET create_task_folder ==
                  IF crArgs.with_task_folder = "none" THEN answer
                  ELSE crArgs.with_task_folder = "yes"
          IN  /\ cEffects' = IF create_task_folder
                             THEN Append(cEffects, Step("create task folder", cBranch, writeOk))
                             ELSE cEffects
              /\ cSaid' = IF create_task_folder /\ ~writeOk
                          THEN cSaid \cup {"Failed to create task structure"} ELSE cSaid
    /\ cpc' = "ide"
    /\ UNCHANGED <<cBranch, cPath, cPreferred, cSource, cExc, userEnv, lastSave, lastGet>>
    /\ UNCHANGED <<crEnv, cGit>>

\* _prompt_ide_selection: nothing without a terminal, without an answer,
\* or when saving the choice raises (the except of line 880); else the
\* IDE picked.
prompt_ide_selection(detected, tty, pick, saveYes, mkdirOk) ==
    IF ~tty \/ pick = 0 \/ (saveYes /\ ~mkdirOk) THEN None ELSE Some(detected[pick])

\* Lines 162-179: preferred_ide, with the preference written for a prompt
\* answered with "save" and for the single detected IDE.
CrResolveIde ==
    /\ cpc = "ide"
    /\ \E readOk, tty, saveYes, mkdirOk, writeOk \in BOOLEAN,
          pick \in 0..Len(detect_available_ides(cInstalled)) :
          LET detected == detect_available_ides(cInstalled)
              pref == IF crArgs.ide = "" THEN get_preferred_ide(userEnv, readOk) ELSE None
              answer == prompt_ide_selection(detected, tty, pick, saveYes, mkdirOk)
              r == ResolveIde(crArgs.ide, pref, detected, crArgs.no_open, answer)
              asked == r.source = "prompt" /\ tty /\ pick # 0
              saves == (asked /\ saveYes) \/ r.source = "detected"
              saved == IF r.source = "prompt" THEN detected[pick] ELSE detected[1]
              prompts == crArgs.ide = "" /\ ~pref.some /\ Len(detected) > 1
                         /\ ~crArgs.no_open
          IN  /\ userEnv.exists => (mkdirOk /\ (crArgs.ide # "" => readOk))
              /\ ~userEnv.exists => readOk
              /\ ~prompts => (tty /\ pick = 0 /\ ~saveYes)
              /\ (~tty \/ pick = 0) => ~saveYes
              /\ ~saves => (mkdirOk /\ writeOk)
              /\ ~mkdirOk => writeOk
              /\ cPreferred' = r.ide
              /\ cSource' = r.source
              /\ lastGet' = IF crArgs.ide = ""
                            THEN [exc |-> "none", val |-> pref, readOk |-> readOk]
                            ELSE lastGet
              /\ IF saves
                 THEN /\ userEnv' = save_preferred_ide(userEnv, saved, mkdirOk, readOk, writeOk)
                      /\ lastSave' = [ide |-> saved, result |-> SaveResult(mkdirOk, writeOk),
                                      readOk |-> readOk]
                      /\ cEffects' = Append(cEffects,
                                            Step("save preference", <<saved>>, mkdirOk /\ writeOk))
                 ELSE UNCHANGED <<userEnv, lastSave, cEffects>>
              /\ IF r.source = "detected" /\ ~mkdirOk
                 THEN cpc' = "raised" /\ cExc' = "OSError"
                 ELSE cpc' = "open" /\ UNCHANGED cExc
    /\ UNCHANGED <<cBranch, cPath, cSaid>>
    /\ UNCHANGED <<crEnv, cGit>>

\* Lines 181-190: _open_ide, when opening is asked for and an IDE is
\* known; what _open_ide lets out leaves create.
CrOpen ==
    /\ cpc = "open"
    /\ ~crArgs.no_open
    /\ cPreferred.some
    /\ \E raised \in BOOLEAN :
          /\ raised => cPreferred.val = "devcontainer"
          /\ cEffects' = Append(cEffects, Step("open IDE", <<cPreferred.val>>, ~raised))
          /\ cpc' = IF raised THEN "raised" ELSE "done"
          /\ cExc' = IF raised THEN "FileNotFoundError" ELSE cExc
    /\ UNCHANGED <<cBranch, cPath, cPreferred, cSource, cSaid, userEnv, lastSave, lastGet>>
    /\ UNCHANGED <<crEnv, cGit>>

\* Lines 192-210: no IDE was opened: the summary.
CrSummary ==
    /\ cpc = "open"
    /\ crArgs.no_open \/ ~cPreferred.some
    /\ cpc' = "done"
    /\ cSaid' = cSaid \cup {"Task worktree created successfully"}
    /\ UNCHANGED <<cBranch, cPath, cPreferred, cSource, cEffects, cExc,
                   userEnv, lastSave, lastGet>>
    /\ UNCHANGED <<crEnv, cGit>>

NextCreate ==
    \/ CrFindRoot
    \/ CrCheckCommitted
    \/ CrName
    \/ CrAdd
    \/ CrCopySecure
    \/ CrTaskFolder
    \/ CrResolveIde
    \/ CrOpen
    \/ CrSummary

(***************************************************************************)
(* Claims about worktree create                                            *)
(***************************************************************************)

\* {parent}/{repoName}-{branch} for the repository /work/repo.
ClaimedDirectory ==
    <<"/", "work", "/", "repo", "-">>
    \o (IF crArgs.branch # <<>> THEN crArgs.branch
        ELSE generate_branch_name(crArgs.description))

Took(op) == \E i \in 1..Len(cEffects) : cEffects[i].op = op

\* C11: whenever the directory {parent}/{repoName}-{branch} exists, create
\* never runs git worktree add and takes none of the later steps (secrets
\* copy, task folder, preference write, IDE launch): it stops at the check.
ExistingDirectoryAborts ==
    ClaimedDirectory \in cFs =>
        /\ cEffects = <<>>
        /\ cpc \in {"start", "devcontainer", "name", "done"}
        /\ userEnv = userEnv0

\* C11 witness: create found the directory of its branch and stopped.
StoppedAtExistingDirectory ==
    /\ cpc = "done"
    /\ ClaimedDirectory \in cFs
    /\ "Worktree already exists" \in cSaid

\* The IDEs create can detect, and the stored preference it can read.
Detected == detect_available_ides(cInstalled)
NoFlag == crArgs.ide = ""
NoStored == get_preferred_ide(userEnv0, TRUE) = None \/ ~lastGet.readOk

\* C14: the IDE to open is the --ide flag; else the stored preference;
\* else the single detected IDE; else the answer to the prompt among
\* several detected IDEs. A source is used only when every source before
\* it gave nothing, and an IDE is launched only when opening is not
\* suppressed and a kind was resolved.
IdeInPriorityOrder ==
    /\ cSource # "unresolved" =>
          /\ ~NoFlag => (cSource = "flag" /\ cPreferred = Some(crArgs.ide))
          /\ cSource = "flag" => ~NoFlag
          /\ (NoFlag /\ ~NoStored) =>
                (cSource = "preference" /\ cPreferred = get_preferred_ide(userEnv0, TRUE))
          /\ cSource = "preference" => (NoFlag /\ ~NoStored)
          /\ cSource = "detected" =>
                (NoFlag /\ NoStored /\ Len(Detected) = 1 /\ cPreferred = Some(Detected[1]))
          /\ cSource = "prompt" =>
                /\ NoFlag /\ NoStored /\ Len(Detected) > 1 /\ ~crArgs.no_open
                /\ cPreferred.some =>
                      \E k \in 1..Len(Detected) : cPreferred.val = Detected[k]
          /\ cSource = "none" => (NoFlag /\ NoStored /\ cPreferred = None)
    /\ \A i \in 1..Len(cEffects) :
          cEffects[i].op = "open IDE" =>
              /\ ~crArgs.no_open
              /\ cPreferred = Some(cEffects[i].arg[1])
    /\ (cpc = "done" /\ cSource # "unresolved" /\ ~crArgs.no_open /\ cPreferred.some) =>
          Took("open IDE")

\* C14 witness: with no flag and a stored preference that names no IDE,
\* the single detected IDE was opened.
OpenedTheDetectedIde ==
    /\ cpc = "done"
    /\ cSource = "detected"
    /\ userEnv0.exists
    /\ Took("open IDE")

NoProjectRoot == "Not in a git repository" \in cSaid

\* C21: create run where no project root is found prints "Not in a git
\* repository", invokes no git command, creates no file or directory and
\* exits with code 0.
NoRootNoAction ==
    NoProjectRoot =>
        /\ cpc = "done"
        /\ cGit = <<>>
        /\ cEffects = <<>>
        /\ userEnv = userEnv0
        /\ ExitCode(cpc) = 0

\* C21 witness: a create that asked for a task folder ended without a
\* project root.
EndedWithoutRoot ==
    /\ cpc = "done"
    /\ "Not in a git repository" \in cSaid
    /\ crArgs.with_task_folder = "yes"

\* C20 as claimed, for create: the command exits with a nonzero code when
\* no project root can be found, and with 0 otherwise.
ExitCodeTellsSetupFailure ==
    cpc \in {"done", "raised"} => ((ExitCode(cpc) # 0) <=> NoProjectRoot)

(***************************************************************************)
(* Two concurrent _save_preferred_ide calls on one project                 *)
(***************************************************************************)

\* The two calls. Nothing is locked: each reads the file in one step and
\* replaces it in a later one.
Callers == {1, 2}

\* The values the two calls save: the first saves vscode, the second
\* either the same or another one.
RaceIdes == {"vscode", "claude"}

\* A write that adds its lines to what the file holds.
WriteTextAppending(file, lines, ok) ==
    IF ok THEN [exists |-> TRUE, text |-> file.text \o JoinLines(lines)] ELSE file

\* Lines 818-822: env_file.write_text("\n".join(lines) + "\n") replaces
\* the whole file; a write that fails is logged and leaves it as it was.
WriteText(file, lines, ok) ==
    IF ok THEN [exists |-> TRUE, text |-> JoinLines(lines)] ELSE file

Waiting(ide) == [pc |-> "read", ide |-> ide, lines |-> <<>>, result |-> "pending"]

InitRace ==
    /\ rFile0 \in InitialFiles
    /\ rFile = rFile0
    /\ rProc \in {[p \in Callers |-> Waiting(IF p = 1 THEN "vscode" ELSE ide)] :
                     ide \in RaceIdes}
    /\ rLast = 0
    /\ rOrder = <<>>

\* No two calls race.
IdleRace ==
    /\ rFile0 = [exists |-> FALSE, text |-> <<>>]
    /\ rFile = rFile0
    /\ rProc = [p \in Callers |->
                   [pc |-> "idle", ide |-> "vscode", lines |-> <<>>, result |-> "pending"]]
    /\ rLast = 0
    /\ rOrder = <<>>

raceEnv == <<branchVars, ctrVars, prefVars, listVars, rmVars, openVars, crVars,
             buildVars, genVars, rFile0>>

\* Lines 800-815 of call p: mkdir, the read of the file as it is now, the
\* filter, the new line.
RaceRead(p) ==
    /\ rProc[p].pc = "read"
    /\ \E mkdirOk, readOk \in BOOLEAN :
          /\ rFile.exists => mkdirOk
          /\ ~rFile.exists => readOk
          /\ rProc' = [rProc EXCEPT ![p] =
                IF mkdirOk
                THEN [@ EXCEPT !.pc = "write",
                               !.lines = LinesToWrite(rFile, rProc[p].ide, readOk)]
                ELSE [@ EXCEPT !.pc = "done", !.result = "raised"]]
    /\ rOrder' = Append(rOrder, <<p, "read">>)
    /\ UNCHANGED <<rFile, rLast>>
    /\ UNCHANGED raceEnv

\* Lines 817-822 of call p: the whole-file write of the lines it holds.
RaceWrite(p) ==
    /\ rProc[p].pc = "write"
    /\ \E writeOk \in BOOLEAN :
          /\ rFile' = WriteText(rFile, rProc[p].lines, writeOk)
          /\ rProc' = [rProc EXCEPT ![p] =
                [@ EXCEPT !.pc = "done",
                          !.result = IF writeOk THEN "written" ELSE "write failed"]]
          /\ rLast' = IF writeOk THEN p ELSE rLast
    /\ rOrder' = Append(rOrder, <<p, "write">>)
    /\ UNCHANGED raceEnv

NextRace ==
    \/ \E p \in Callers : RaceRead(p)
    \/ \E p \in Callers : RaceWrite(p)

(***************************************************************************)
(* Claims about two concurrent _save_preferred_ide calls                   *)
(***************************************************************************)

BothFinished == \A p \in Callers : rProc[p].pc = "done"

ImageVariants ==
    <<"base", "minimal", "python", "dotnet", "golang", "nodejs", "rust", "java">>

\* Lines 106-110: support_images, as the names handed to _build_image.
SupportImages ==
    <<"ai-agents-sandbox/tinyproxy-base", "ai-agents-sandbox/tinyproxy",
      "ai-agents-sandbox/docker-dind">>

BaseImageName == "ai-agents-sandbox/base"

\* _get_variant_image_spec(variant): the image repository of the variant,
\* None for a variant this repository has no directory for.
get_variant_image_spec(variant) ==
    CASE variant = "base" -> Some(BaseImageName)
      [] variant = "minimal" -> Some("ai-agents-sandbox/minimal")
      [] variant = "python" -> Some("ai-agents-sandbox/python")
      [] variant = "nodejs" -> Some("ai-agents-sandbox/nodejs")
      [] variant = "dotnet" -> Some("ai-agents-sandbox/devcontainer-dotnet")
      [] variant = "golang" -> Some("ai-agents-sandbox/devcontainer-golang")
      [] OTHER -> None

\* How `docker info --format json` can end.
DockerInfos == {"raised", "nonzero", "not json", "server errors", "no version", "running"}

\* get_docker_info(): the info, or None when the command cannot be run,
\* exits with a nonzero status, prints no JSON, reports ServerErrors or
\* no ServerVersion.
get_docker_info(info) == IF info = "running" THEN Some(info) ELSE None

\* is_docker_running(): get_docker_info() is not None
is_docker_running(info) == get_docker_info(info).some

\* A build that goes on without the daemon.
AfterDockerCheckGoOn(running) == "select"

\* Lines 72-74: sys.exit(1) when docker is not running.
AfterDockerCheck(running) == IF running THEN "select" ELSE "exited"

\* Lines 77-91: variants_to_build.
VariantsToBuild(all, variant, project, configVariant) ==
    IF all THEN ImageVariants
    ELSE IF variant.some THEN <<variant.val>>
    ELSE IF project = "config" THEN <<configVariant>>
    ELSE <<"base">>

\* Line 129: ImageVariant.BASE in variants_to_build or len(variants_to_build) > 1
NeedsBase(variants) ==
    (\E i \in 1..Len(variants) : variants[i] = "base") \/ Len(variants) > 1

\* _build_image(...): True when `docker build` exits with 0, False when it
\* exits with another status or the Dockerfile is not there; another
\* exception (of mkdir, of write_text, of a docker that cannot be run)
\* leaves it.
BuildOutcomes == {"ok", "nonzero", "raised"}

\* success_count and failed_count after one _build_image call.
Counted(count, result) ==
    CASE result = "ok" -> [count EXCEPT !.success = @ + 1]
      [] result = "nonzero" -> [count EXCEPT !.failed = @ + 1]
      [] OTHER -> count

\* A build that goes on to the variants whatever became of the base image.
AfterBaseGoOn(result) == "variants"

\* Lines 132-145: after the base image: sys.exit(1) when it failed.
AfterBase(result) ==
    CASE result = "ok" -> "variants"
      [] result = "nonzero" -> "exited"
      [] OTHER -> "raised"

\* Line 181: if push and success_count > 0
PushesImages(push, count) == push /\ count.success > 0

Built(image, result) == [op |-> "build", image |-> image, result |-> result]
Pushed(image, result) == [op |-> "push", image |-> image, result |-> result]

InitBuild ==
    /\ dArgs \in {a \in [all : BOOLEAN,
                         variant : {None} \cup {Some(ImageVariants[i]) : i \in 1..Len(ImageVariants)},
                         push : BOOLEAN,
                         project : {"none", "no config", "invalid", "config"},
                         configVariant : {"base", "python"}] :
                    /\ a.all => a.variant \in {None, Some("python")}
                    /\ (a.all \/ a.variant.some) => a.project = "none"
                    /\ a.project # "config" => a.configVariant = "base"}
    /\ dInfo \in DockerInfos
    /\ dpc = "start"
    /\ dVariants = <<>>
    /\ dIdx = 1
    /\ dLog = <<>>
    /\ dCount = [success |-> 0, failed |-> 0]
    /\ dSaid = {}
    /\ dExit = -1

\* No build command runs.
IdleBuild ==
    /\ dArgs = [all |-> FALSE, variant |-> None, push |-> FALSE, project |-> "none",
                configVariant |-> "base"]
    /\ dInfo = "running"
    /\ dpc = "idle"
    /\ dVariants = <<>>
    /\ dIdx = 1
    /\ dLog = <<>>
    /\ dCount = [success |-> 0, failed |-> 0]
    /\ dSaid = {}
    /\ dExit = -1

buildEnv == <<branchVars, ctrVars, prefVars, listVars, rmVars, openVars, crVars,
              raceVars, genVars, dArgs, dInfo>>

\* Lines 72-74: the daemon first.
BuildCheckDocker ==
    /\ dpc = "start"
    /\ LET running == is_docker_running(dInfo)
       IN  /\ dpc' = AfterDockerCheck(running)
           /\ dSaid' = IF running THEN dSaid ELSE dSaid \cup {"Docker is not running"}
           /\ dExit' = IF running THEN dExit ELSE 1
    /\ UNCHANGED <<dVariants, dIdx, dLog, dCount>>
    /\ UNCHANGED buildEnv

\* Lines 76-91: the variants to build; a project configuration that
\* cannot be loaded raises.
BuildSelect ==
    /\ dpc = "select"
    /\ IF ~dArgs.all /\ ~dArgs.variant.some /\ dArgs.project = "invalid"
       THEN dpc' = "raised" /\ dExit' = 1 /\ UNCHANGED <<dVariants, dSaid>>
       ELSE /\ dVariants' = VariantsToBuild(dArgs.all, dArgs.variant, dArgs.project,
                                            dArgs.configVariant)
            /\ dpc' = "support"
            /\ dSaid' = dSaid \cup {"Building Docker images"}
            /\ UNCHANGED dExit
    /\ dIdx' = 1
    /\ UNCHANGED <<dLog, dCount>>
    /\ UNCHANGED buildEnv

\* Lines 112-126: one turn of the loop over support_images.
BuildSupport ==
    /\ dpc = "support"
    /\ \E result \in BuildOutcomes :
          /\ dLog' = Append(dLog, Built(SupportImages[dIdx], result))
          /\ dCount' = Counted(dCount, result)
          /\ dpc' = IF result = "raised" THEN "raised"
                    ELSE IF dIdx = Len(SupportImages) THEN "base" ELSE "support"
          /\ dExit' = IF result = "raised" THEN 1 ELSE dExit
    /\ dIdx' = IF dIdx = Len(SupportImages) THEN 1 ELSE dIdx + 1
    /\ UNCHANGED <<dVariants, dSaid>>
    /\ UNCHANGED buildEnv

\* Lines 128-145: the base image, when it is needed.
BuildBase ==
    /\ dpc = "base"
    /\ IF NeedsBase(dVariants)
       THEN \E result \in BuildOutcomes :
               /\ dLog' = Append(dLog, Built(BaseImageName, result))
               /\ dCount' = Counted(dCount, result)
               /\ dpc' = AfterBase(result)
               /\ dSaid' = IF result = "nonzero"
                           THEN dSaid \cup {"Cannot build variants without base image"}
                           ELSE dSaid
               /\ dExit' = IF result = "ok" THEN dExit ELSE 1
       ELSE dpc' = "variants" /\ UNCHANGED <<dLog, dCount, dSaid, dExit>>
    /\ dIdx' = 1
    /\ UNCHANGED dVariants
    /\ UNCHANGED buildEnv

\* Lines 147-178: one turn of the loop over variants_to_build.
BuildVariant ==
    /\ dpc = "variants"
    /\ LET variant == dVariants[dIdx]
           spec == get_variant_image_spec(variant)
           onward == IF dIdx = Len(dVariants) THEN "push" ELSE "variants"
       IN  IF variant = "base"
           THEN dpc' = onward /\ UNCHANGED <<dLog, dCount, dSaid, dExit>>
           ELSE IF ~spec.some
           THEN /\ dpc' = onward
                /\ dSaid' = dSaid \cup {"Skipped (unsupported)"}
                /\ UNCHANGED <<dLog, dCount, dExit>>
           ELSE \E result \in BuildOutcomes :
                   /\ dLog' = Append(dLog, Built(spec.val, result))
                   /\ dCount' = Counted(dCount, result)
                   /\ dpc' = IF result = "raised" THEN "raised" ELSE onward
                   /\ dExit' = IF result = "raised" THEN 1 ELSE dExit
                   /\ UNCHANGED dSaid
    /\ dIdx' = IF dIdx = Len(dVariants) THEN 1 ELSE dIdx + 1
    /\ UNCHANGED dVariants
    /\ UNCHANGED buildEnv

\* Lines 180-183 and _push_images: one turn of its loop over
\* variants_to_build; a push that exits with a nonzero status is reported
\* and the loop goes on.
BuildPush ==
    /\ dpc = "push"
    /\ IF ~PushesImages(dArgs.push, dCount)
       THEN dpc' = "summary" /\ UNCHANGED <<dIdx, dLog, dSaid, dExit>>
       ELSE LET spec == get_variant_image_spec(dVariants[dIdx])
                onward == IF dIdx = Len(dVariants) THEN "summary" ELSE "push"
            IN  /\ dIdx' = IF dIdx = Len(dVariants) THEN 1 ELSE dIdx + 1
                /\ IF ~spec.some
                   THEN dpc' = onward /\ UNCHANGED <<dLog, dSaid, dExit>>
                   ELSE \E result \in BuildOutcomes :
                           /\ dLog' = Append(dLog, Pushed(spec.val, result))
                           /\ dpc' = IF result = "raised" THEN "raised" ELSE onward
                           /\ dSaid' = dSaid \cup
                                 (CASE result = "ok" -> {"Pushed"}
                                    [] result = "nonzero" -> {"Failed to push"}
                                    [] OTHER -> {})
                           /\ dExit' = IF result = "raised" THEN 1 ELSE dExit
    /\ UNCHANGED <<dVariants, dCount>>
    /\ UNCHANGED buildEnv

\* Lines 185-189: the summary; the command ends with exit code 0.
BuildSummary ==
    /\ dpc = "summary"
    /\ dpc' = "done"
    /\ dSaid' = dSaid \cup {"Build Summary"}
                      \cup (IF dCount.failed > 0 THEN {"Failed: n images"} ELSE {})
    /\ dExit' = 0
    /\ UNCHANGED <<dVariants, dIdx, dLog, dCount>>
    /\ UNCHANGED buildEnv

NextBuild ==
    \/ BuildCheckDocker
    \/ BuildSelect
    \/ BuildSupport
    \/ BuildBase
    \/ BuildVariant
    \/ BuildPush
    \/ BuildSummary

(***************************************************************************)
(* Claims about docker build                                               *)
(***************************************************************************)

\* C22: the build command checks the container runtime before anything
\* else: when the daemon is not running it reports 'Docker is not
\* running', exits with a nonzero code, and runs no image build and no
\* push.
DockerCheckedFirst ==
    (~is_docker_running(dInfo) /\ dpc \notin {"idle", "start"}) =>
        /\ dpc = "exited"
        /\ dExit > 0
        /\ "Docker is not running" \in dSaid
        /\ dLog = <<>>

\* C22 witness: `build --all --push` ended at once because docker info
\* reported server errors.
EndedWithoutDocker ==
    /\ dpc = "exited"
    /\ dInfo = "server errors"
    /\ dArgs.all
    /\ dArgs.push
    /\ dLog = <<>>

\* The builds run so far, in order.
Builds == SelectSeq(dLog, LAMBDA e : e.op = "build")

\* The pushes run so far, in order.
Pushes == SelectSeq(dLog, LAMBDA e : e.op = "push")

RECURSIVE VariantImages(_)
\* The images of the variants other than base that have one, in the order
\* of the list.
VariantImages(variants) ==
    IF variants = <<>> THEN <<>>
    ELSE (IF Head(variants) # "base" /\ get_variant_image_spec(Head(variants)).some
          THEN <<get_variant_image_spec(Head(variants)).val>> ELSE <<>>)
         \o VariantImages(Tail(variants))

\* The builds of a whole run: the three support images, the base image
\* when it is needed, the variants.
AllBuilds(variants) ==
    SupportImages
    \o (IF NeedsBase(variants) THEN <<BaseImageName>> ELSE <<>>)
    \o VariantImages(variants)

\* C29: the builds run in a fixed order, the three support images, then
\* the base image (when base is requested or more than one variant is),
\* then each requested variant other than base; when the build of the
\* base image fails the command exits with code 1 before any variant
\* build and before any push; a failed support or variant build does not
\* stop the remaining builds.
BuildsInOrder ==
    LET b == Builds
        all == AllBuilds(dVariants)
    IN  /\ Len(b) <= Len(all)
        /\ \A i \in 1..Len(b) : b[i].image = all[i]
        /\ \A i \in 1..Len(dLog), j \in 1..Len(dLog) :
              (i < j /\ dLog[i].op = "push") => dLog[j].op = "push"
        /\ \A i \in 1..Len(b) :
              (b[i].image = BaseImageName /\ b[i].result = "nonzero") =>
                  /\ i = Len(b)
                  /\ Pushes = <<>>
                  /\ dpc = "exited"
                  /\ dExit = 1
        /\ \A i \in 1..(Len(b) - 1) : b[i].result # "raised"
        /\ (dpc \in {"push", "summary", "done"} \/ Pushes # <<>>) =>
              Len(b) = Len(all)

\* C29 witness: in a `build --all` the first support image and the python
\* variant failed to build and every build of the run was made all the
\* same.
FailedBuildsWentOn ==
    /\ dpc = "done"
    /\ dArgs.all
    /\ Len(Builds) = Len(AllBuilds(ImageVariants))
    /\ Builds[1].result = "nonzero"
    /\ \E i \in 1..Len(Builds) :
          Builds[i].image = "ai-agents-sandbox/python" /\ Builds[i].result = "nonzero"
    /\ Builds[Len(Builds)].result = "ok"

\* C30 as claimed: build --push pushes an image only if that image was
\* built successfully in the same run: no variant whose build failed or
\* was skipped is pushed, and nothing is pushed when no build succeeded.
PushOnlyBuilt ==
    \A j \in 1..Len(dLog) :
        dLog[j].op = "push" =>
            \E i \in 1..(j - 1) :
                /\ dLog[i].op = "build"
                /\ dLog[i].image = dLog[j].image
                /\ dLog[i].result = "ok"

(***************************************************************************)
(* TemplateManager.generate_project_files (src/src/ai_sbx/templates.py)    *)
(***************************************************************************)

\* Lines 61-70: the names of the files to generate, in the order of the
\* dictionary.
GenFiles ==
    << <<"devcontainer", ".json">>, <<"Dockerfile">>, <<".env">>, <<".gitignore">>,
       <<"local.project", ".yaml">>, <<"override.user", ".yaml">>,
       <<"init-project", ".sh">>, <<"ai-sbx.yaml", ".template">> >>

Targets == {GenFiles[i] : i \in 1..Len(GenFiles)}

\* filename.endswith(suffix)
EndsWith(filename, suffix) == filename[Len(filename)] = suffix

\* A generator that skips no file.
SkipsNothing(exists, force) == FALSE

\* Line 75: file_path.exists() and not force
SkipsExisting(exists, force) == exists /\ ~force

\* How file_path.write_text(content) and the chmod that follows it for a
\* shell script can end: both succeed; write_text raises before it touches
\* the file; write_text raises after it truncated the file; chmod raises.
WriteOutcomes == {"ok", "denied", "truncated", "chmod failed"}

\* Lines 80-90: the content of the file afterwards, and whether the file
\* counts as created.
WriteFile(old, outcome) ==
    CASE outcome = "ok" -> [content |-> "new", ok |-> TRUE]
      [] outcome = "chmod failed" -> [content |-> "new", ok |-> FALSE]
      [] outcome = "truncated" -> [content |-> "partial", ok |-> FALSE]
      [] OTHER -> [content |-> old, ok |-> FALSE]

\* Lines 72-90: one turn of the loop over the files.
GenerateFile(old, force, outcome) ==
    IF SkipsExisting(old # "absent", force)
    THEN [content |-> old, ok |-> FALSE]
    ELSE WriteFile(old, outcome)

\* generate_project_files(output_dir, config, force): the files afterwards
\* and the value returned.
generate_project_files(fs, force, outcomes) ==
    [fs |-> [f \in Targets |-> GenerateFile(fs[f], force, outcomes[f]).content],
     result |-> \A f \in Targets : GenerateFile(fs[f], force, outcomes[f]).ok]

\* The outcomes the model draws from: every write succeeds, one target
\* fails in one way, or no target can be written (the directory is
\* missing or read-only). chmod is called for shell scripts only.
GenOutcomes ==
    {[f \in Targets |-> "ok"], [f \in Targets |-> "denied"]}
    \cup {[f \in Targets |-> IF f = g THEN o ELSE "ok"] :
             <<g, o>> \in {x \in Targets \X (WriteOutcomes \ {"ok"}) :
                              x[2] = "chmod failed" => EndsWith(x[1], ".sh")}}

InitGenerate ==
    /\ gFs0 \in [Targets -> {"absent", "old"}]
    /\ gFs = gFs0
    /\ gForce \in BOOLEAN
    /\ gOutcomes \in GenOutcomes
    /\ gpc = "input"
    /\ gResult = FALSE

\* No generate_project_files call runs.
IdleGenerate ==
    /\ gFs0 = [f \in Targets |-> "absent"]
    /\ gFs = gFs0
    /\ gForce = FALSE
    /\ gOutcomes = [f \in Targets |-> "ok"]
    /\ gpc = "idle"
    /\ gResult = FALSE

\* No race, no build, no generation.
IdleMore == IdleRace /\ IdleBuild /\ IdleGenerate

\* The call; rendering the contents (lines 61-70) can raise, before any
\* file is touched.
GenerateProjectFiles ==
    /\ gpc = "input"
    /\ \E rendered \in BOOLEAN :
          IF rendered
          THEN /\ gFs' = generate_project_files(gFs, gForce, gOutcomes).fs
               /\ gResult' = generate_project_files(gFs, gForce, gOutcomes).result
               /\ gpc' = "done"
          ELSE gpc' = "raised" /\ UNCHANGED <<gFs, gResult>>
    /\ UNCHANGED <<gFs0, gForce, gOutcomes>>
    /\ UNCHANGED <<branchVars, ctrVars, prefVars, listVars, rmVars, openVars, crVars,
                   raceVars, buildVars>>

NextGenerate == GenerateProjectFiles

(***************************************************************************)
(* Claims about generate_project_files                                     *)
(***************************************************************************)

Existed(f) == gFs0[f] # "absent"

\* write_text(content) returned for this target (it is also what happens
\* when only the chmod after it raised).
WriteSucceeded(f) == gOutcomes[f] \in {"ok", "chmod failed"}

InitOfBranch == InitBranch /\ IdleContainer /\ IdlePref /\ IdleList /\ IdleRemove /\ IdleOpen /\ IdleCreate /\ IdleMore
SpecBranch == InitOfBranch /\ [][NextBranch]_vars

\* The container name resolver alone.
InitOfContainer == IdleBranch /\ InitContainer /\ IdlePref /\ IdleList /\ IdleRemove /\ IdleOpen /\ IdleCreate /\ IdleMore
SpecContainer == InitOfContainer /\ [][NextContainer]_vars

\* The IDE preference store alone.
InitOfPref == IdleBranch /\ IdleContainer /\ InitPref /\ IdleList /\ IdleRemove /\ IdleOpen /\ IdleCreate /\ IdleMore
SpecPref == InitOfPref /\ [][NextPref]_vars

\* The worktree registry reader alone.
InitOfList == IdleBranch /\ IdleContainer /\ IdlePref /\ InitList /\ IdleRemove /\ IdleOpen /\ IdleCreate /\ IdleMore
SpecList == InitOfList /\ [][NextList]_vars

\* The remove command in its environment of git and docker.
InitOfRemove == IdleBranch /\ IdlePref /\ InitRemoveEnv /\ InitRemove /\ IdleOpen /\ IdleCreate /\ IdleMore
SpecRemove == InitOfRemove /\ [][NextRemove]_vars

\* One _open_ide call.
InitOfOpen == IdleBranch /\ IdleContainer /\ IdlePref /\ IdleList /\ IdleRemove /\ InitOpen /\ IdleCreate /\ IdleMore
SpecOpen == InitOfOpen /\ [][NextOpen]_vars

\* One create command.
InitOfCreate ==
    IdleBranch /\ IdleContainer /\ IdleList /\ IdleRemove /\ IdleOpen
    /\ InitCreateEnv /\ InitCreate /\ IdleMore
SpecCreate == InitOfCreate /\ [][NextCreate]_vars

\* Two _save_preferred_ide calls at once.
InitOfRace ==
    IdleBranch /\ IdleContainer /\ IdlePref /\ IdleList /\ IdleRemove /\ IdleOpen
    /\ IdleCreate /\ InitRace /\ IdleBuild /\ IdleGenerate
SpecRace == InitOfRace /\ [][NextRace]_vars

\* One docker build command.
InitOfBuild ==
    IdleBranch /\ IdleContainer /\ IdlePref /\ IdleList /\ IdleRemove /\ IdleOpen
    /\ IdleCreate /\ IdleRace /\ InitBuild /\ IdleGenerate
SpecBuild == InitOfBuild /\ [][NextBuild]_vars

\* One generate_project_files call.
InitOfGenerate ==
    IdleBranch /\ IdleContainer /\ IdlePref /\ IdleList /\ IdleRemove /\ IdleOpen
    /\ IdleCreate /\ IdleRace /\ IdleBuild /\ InitGenerate
SpecGenerate == InitOfGenerate /\ [][NextGenerate]_vars

====
